---- MODULE Spec2Model ----
(***************************************************************************)
(* Model of the autonomous decision / rate-limiting loop of the bot:       *)
(* RateLimitTracker (rate_limit_tracker.py), the rate-limited handlers of  *)
(* ToolExecutor (tools.py), the conversation history of                    *)
(* PeterGriffinPersonality (peter_personality.py) and the cycle of         *)
(* AutonomousPeterGriffinAgent.autonomous_loop (autonomous_agent.py).      *)
(*                                                                         *)
(* Time is counted in ticks, TicksPerSec ticks to the second, so that the  *)
(* truncations int(...) of the code act on fractions of a second.  A date  *)
(* is the number of the UTC day.  An optional value (Python's None or a    *)
(* missing dictionary key) is the empty sequence, a present one <<v>>.     *)
(***************************************************************************)
EXTENDS Integers, Sequences, FiniteSets, TLC

VARIABLES
    now,        \* the wall clock, time.time(), in ticks
    state,      \* RateLimitTracker.state, the in-memory rate-limit record
    file,       \* the contents of rate_limits.json
    last,       \* the latest call made on the tracker: operation, arguments,
                \* time, the state it found and what it returned
    exec,       \* the latest ToolExecutor.execute: tool, remote response, outcome
    pc,         \* autonomous_loop: the place the loop thread is at
    iteration,  \* autonomous_loop: decision turns taken in this cycle
    done,       \* autonomous_loop: the cycle's done flag
    tool_calls, \* autonomous_loop: the tool calls of the response still to run
    conversation_history, \* PeterGriffinPersonality.conversation_history (roles)
    turns,      \* decide_next_actions calls made in this cycle
    running,    \* AutonomousPeterGriffinAgent.running
    total_actions,      \* AutonomousPeterGriffinAgent.total_actions
    successful_actions, \* AutonomousPeterGriffinAgent.successful_actions
    advances,   \* clock advances made so far (bounds the behaviour)
    writes,     \* record_* and apply_* calls made so far (bounds the behaviour)
    suggestions,     \* the contents of suggestions.json
    contexts,        \* the suggestions each build_context put in its context
    dash,            \* the dashboard thread: the request it serves, its locals
    agent,           \* the loop thread inside a call shared with the dashboard
    serial,          \* the calls in progress and the state they started from
    activities,      \* ActivityLogger.activities, the ring buffer
    subscribers,     \* ActivityLogger.subscribers, one queue each
    latest_activity, \* the type of the event the loop thread logged last
    gets,            \* events taken by stream consumers (bounds the behaviour)
    request          \* the latest MoltbookClient._request: endpoint, what went
                     \* out on the wire, the server's answer, what it returned

vars == <<now, state, file, last, exec, pc, iteration, done, tool_calls,
          conversation_history, turns, running, total_actions,
          successful_actions, advances, writes, suggestions,
          contexts, dash, agent, serial, activities, subscribers,
          latest_activity, gets, request>>

trackerVars == <<now, state, file, last, advances, writes>>
agentVars == <<running, total_actions, successful_actions>>
loopVars ==
    <<pc, iteration, done, tool_calls, conversation_history, turns, agentVars>>
threadVars ==
    <<suggestions, contexts, dash, agent, serial, activities, subscribers,
      gets, request>>

-----------------------------------------------------------------------------
(* Bounds of the model *)

\* ticks to the second
TicksPerSec == 2
\* clock advances in one behaviour
MaxAdvances == 2
\* record_* and apply_* calls in one behaviour
MaxWrites == 2
\* record_comment calls made beyond the daily limit
MaxOver == 2
\* tool calls in one response of the language model
MaxToolCalls == 2
\* executions that record or apply a limit, in one behaviour of the executor
MaxExecWrites == 1

(* Program constants *)

comments_per_day == 50
comment_cooldown_seconds == 20
post_cooldown_minutes == 30
SecondsPerMinute == 60
SecondsPerDay == 86400
\* the comments_today that initialize_rate_limits.py writes
initial_comments_today == 55
max_history == 20
max_iterations_per_cycle == 10
\* the sleep after an unexpected error in autonomous_loop, in seconds
error_sleep_seconds == 2

-----------------------------------------------------------------------------
(* Helpers *)

None == <<>>
Some(v) == <<v>>

Max(a, b) == IF a >= b THEN a ELSE b
Min(a, b) == IF a <= b THEN a ELSE b

\* Python's int() of a number of `unit`-tick units given in ticks:
\* truncation toward zero.
PyInt(ticks, unit) ==
    IF ticks >= 0 THEN ticks \div unit ELSE -((-ticks) \div unit)

SecTicks == TicksPerSec
MinTicks == SecondsPerMinute * TicksPerSec
DayTicks == SecondsPerDay * TicksPerSec

\* datetime.now(timezone.utc).date().isoformat(): the UTC day of the clock
today(t) == t \div DayTicks

-----------------------------------------------------------------------------
(* RateLimitTracker.  A tracker value tr is [state, file]; every operation *)
(* maps the tracker (and the clock) to the tracker after it.               *)

_save(tr) ==
    [tr EXCEPT !.file = [kind |-> "json", data |-> tr.state]]

_create_initial_state(tr, t) ==
    _save([tr EXCEPT !.state =
        [reset_date |-> today(t),
         comments_today |-> 0,
         last_comment_time |-> 0,
         last_post_time |-> 0,
         comment_blocked_until |-> 0,
         post_blocked_until |-> 0]])

\* a file that does not exist or does not parse gives the initial state
_load_or_create(tr, t) ==
    IF tr.file.kind = "json"
    THEN [tr EXCEPT !.state = tr.file.data]
    ELSE _create_initial_state(tr, t)

\* the value state.get(key, 0) of the code
Get0(st, key) == IF key \in DOMAIN st THEN st[key] ELSE 0

_ensure_state_defaults(tr) ==
    LET st == tr.state
        withDefaults ==
            [k \in DOMAIN st \cup {"comment_blocked_until", "post_blocked_until"}
                |-> Get0(st, k)]
        changed == ~ ({"comment_blocked_until", "post_blocked_until"} \subseteq DOMAIN st)
    IN  IF changed THEN _save([tr EXCEPT !.state = withDefaults]) ELSE tr

\* a rollover that moves reset_date and keeps the count
_check_and_reset_daily_keeps_count(tr, t) ==
    IF tr.state.reset_date # today(t)
    THEN _save([tr EXCEPT !.state.reset_date = today(t)])
    ELSE tr

_check_and_reset_daily(tr, t) ==
    IF tr.state.reset_date # today(t)
    THEN _save([tr EXCEPT !.state.reset_date = today(t),
                          !.state.comments_today = 0])
    ELSE tr

\* RateLimitTracker.__init__ on a process start
__init__(fl, t) ==
    _check_and_reset_daily(
        _ensure_state_defaults(
            _load_or_create([state |-> [reset_date |-> 0], file |-> fl], t)), t)

-----------------------------------------------------------------------------
(* A hint of the server (retry_after_seconds, retry_after_minutes,         *)
(* daily_remaining) is a JSON value: absent ("none"), a number ("num",     *)
(* val in 1/TicksPerSec of its unit) or a value int() raises on ("bad").   *)

NoHint == [kind |-> "none", val |-> 0]
BadHint == [kind |-> "bad", val |-> 0]
Num(v) == [kind |-> "num", val |-> v]
\* int(hint) of a numeric hint
HintInt(h) == PyInt(h.val, TicksPerSec)

\* an apply that sets the block to now + retry_after whatever block there is
apply_comment_rate_limit_overwrites(tr, t, retry_after_seconds, daily_remaining) ==
    LET tr1 == _check_and_reset_daily(tr, t)
        st1 == tr1.state
        st2 == IF retry_after_seconds.kind = "num"
               THEN [st1 EXCEPT !.comment_blocked_until =
                        t + HintInt(retry_after_seconds) * SecTicks]
               ELSE st1
        st3 == IF daily_remaining.kind = "num"
               THEN LET daily_remaining_int == Max(0, HintInt(daily_remaining))
                        used == Max(0, comments_per_day - daily_remaining_int)
                    IN  [st2 EXCEPT !.comments_today = Min(comments_per_day, used)]
               ELSE st2
    IN  _save([tr1 EXCEPT !.state = st3])

\* an apply that stores the limit minus daily_remaining as it comes
apply_comment_rate_limit_unclamped(tr, t, retry_after_seconds, daily_remaining) ==
    LET tr1 == _check_and_reset_daily(tr, t)
        st1 == tr1.state
        st2 == IF retry_after_seconds.kind = "num"
               THEN [st1 EXCEPT !.comment_blocked_until =
                        Max(Get0(st1, "comment_blocked_until"),
                            t + HintInt(retry_after_seconds) * SecTicks)]
               ELSE st1
        st3 == IF daily_remaining.kind = "num"
               THEN [st2 EXCEPT !.comments_today =
                        comments_per_day - HintInt(daily_remaining)]
               ELSE st2
    IN  _save([tr1 EXCEPT !.state = st3])

apply_comment_rate_limit(tr, t, retry_after_seconds, daily_remaining) ==
    LET tr1 == _check_and_reset_daily(tr, t)
        st1 == tr1.state
        st2 == IF retry_after_seconds.kind = "num"
               THEN [st1 EXCEPT !.comment_blocked_until =
                        Max(Get0(st1, "comment_blocked_until"),
                            t + HintInt(retry_after_seconds) * SecTicks)]
               ELSE st1
        st3 == IF daily_remaining.kind = "num"
               THEN LET daily_remaining_int == Max(0, HintInt(daily_remaining))
                        used == Max(0, comments_per_day - daily_remaining_int)
                    IN  [st2 EXCEPT !.comments_today = Min(comments_per_day, used)]
               ELSE st2
    IN  _save([tr1 EXCEPT !.state = st3])

\* a block that is set to the server's hint whatever block there was
apply_post_rate_limit_overwrites(tr, t, retry_after_minutes) ==
    IF retry_after_minutes.kind = "num"
    THEN _save([tr EXCEPT !.state.post_blocked_until =
                    t + HintInt(retry_after_minutes) * MinTicks])
    ELSE tr

apply_post_rate_limit(tr, t, retry_after_minutes) ==
    IF retry_after_minutes.kind = "num"
    THEN _save([tr EXCEPT !.state.post_blocked_until =
                    Max(Get0(tr.state, "post_blocked_until"),
                        t + HintInt(retry_after_minutes) * MinTicks)])
    ELSE tr

\* can_comment, line 137: the wait reported under a server block
wait_seconds_blocked(blocked_until, t) ==
    PyInt(blocked_until - t, SecTicks) + 1

\* the daily cap taken as reached only once it is exceeded
daily_limit_exceeded(st) ==
    st.comments_today > comments_per_day

\* can_comment, line 146: the daily cap is reached
daily_limit_reached(st) ==
    st.comments_today >= comments_per_day

\* the time gone by since the last comment reported as the wait
wait_seconds_elapsed(cooldown, time_since_last) ==
    PyInt(time_since_last, SecTicks)

\* can_comment, line 159: the wait reported under the local cooldown
wait_seconds_cooldown(cooldown, time_since_last) ==
    PyInt(cooldown - time_since_last, SecTicks)

\* can_comment: [tr: the tracker after the call, res: the dictionary returned]
\* a can_comment that looks at the daily count before the server's block
can_comment_count_first(tr, t) ==
    LET tr1 == _check_and_reset_daily(tr, t)
        st == tr1.state
        blocked_until == Get0(st, "comment_blocked_until")
        time_since_last == t - st.last_comment_time
        cooldown == comment_cooldown_seconds * SecTicks
        res ==
            IF daily_limit_reached(st)
            THEN [allowed |-> FALSE, reason |-> "daily_limit",
                  message |-> "Daily comment limit reached (50/day)",
                  wait_seconds |-> None,
                  wait_until |-> Some("tomorrow (UTC midnight)"),
                  comments_remaining |-> 0]
            ELSE IF blocked_until # 0 /\ t < blocked_until
            THEN [allowed |-> FALSE, reason |-> "cooldown",
                  message |-> "Comment cooldown active (server rate limit)",
                  wait_seconds |-> Some(wait_seconds_blocked(blocked_until, t)),
                  wait_until |-> None,
                  comments_remaining |-> comments_per_day - st.comments_today]
            ELSE IF time_since_last < cooldown
            THEN [allowed |-> FALSE, reason |-> "cooldown",
                  message |-> "Comment cooldown active (20s between comments)",
                  wait_seconds |-> Some(wait_seconds_cooldown(cooldown, time_since_last)),
                  wait_until |-> None,
                  comments_remaining |-> comments_per_day - st.comments_today]
            ELSE [allowed |-> TRUE, reason |-> "none", message |-> "none",
                  wait_seconds |-> None, wait_until |-> None,
                  comments_remaining |-> comments_per_day - st.comments_today]
    IN  [tr |-> tr1, res |-> res]

can_comment(tr, t) ==
    LET tr1 == _check_and_reset_daily(tr, t)
        st == tr1.state
        blocked_until == Get0(st, "comment_blocked_until")
        time_since_last == t - st.last_comment_time
        cooldown == comment_cooldown_seconds * SecTicks
        res ==
            IF blocked_until # 0 /\ t < blocked_until
            THEN [allowed |-> FALSE, reason |-> "cooldown",
                  message |-> "Comment cooldown active (server rate limit)",
                  wait_seconds |-> Some(wait_seconds_blocked(blocked_until, t)),
                  wait_until |-> None,
                  comments_remaining |-> comments_per_day - st.comments_today]
            ELSE IF daily_limit_reached(st)
            THEN [allowed |-> FALSE, reason |-> "daily_limit",
                  message |-> "Daily comment limit reached (50/day)",
                  wait_seconds |-> None,
                  wait_until |-> Some("tomorrow (UTC midnight)"),
                  comments_remaining |-> 0]
            ELSE IF time_since_last < cooldown
            THEN [allowed |-> FALSE, reason |-> "cooldown",
                  message |-> "Comment cooldown active (20s between comments)",
                  wait_seconds |-> Some(wait_seconds_cooldown(cooldown, time_since_last)),
                  wait_until |-> None,
                  comments_remaining |-> comments_per_day - st.comments_today]
            ELSE [allowed |-> TRUE, reason |-> "none", message |-> "none",
                  wait_seconds |-> None, wait_until |-> None,
                  comments_remaining |-> comments_per_day - st.comments_today]
    IN  [tr |-> tr1, res |-> res]

\* a can_post that still denies when exactly the cooldown has gone by
can_post_inclusive(tr, t) ==
    LET st == tr.state
        blocked_until == Get0(st, "post_blocked_until")
        time_since_last == t - st.last_post_time
        cooldown == post_cooldown_minutes * MinTicks
        res ==
            IF blocked_until # 0 /\ t < blocked_until
            THEN [allowed |-> FALSE, reason |-> "cooldown",
                  message |-> "Post cooldown active (server rate limit)",
                  wait_minutes |-> Some(PyInt(blocked_until - t, MinTicks) + 1)]
            ELSE IF time_since_last <= cooldown
            THEN [allowed |-> FALSE, reason |-> "cooldown",
                  message |-> "Post cooldown active (1 post per 30 minutes)",
                  wait_minutes |-> Some(PyInt(cooldown - time_since_last, MinTicks) + 1)]
            ELSE [allowed |-> TRUE, reason |-> "none", message |-> "none",
                  wait_minutes |-> None]
    IN  [tr |-> tr, res |-> res]

\* a check that looks at the server's block only
can_post_blocked_only(tr, t) ==
    LET st == tr.state
        blocked_until == Get0(st, "post_blocked_until")
    IN  [tr |-> tr,
         res |-> IF blocked_until # 0 /\ t < blocked_until
                 THEN [allowed |-> FALSE, reason |-> "cooldown",
                       message |-> "Post cooldown active (server rate limit)",
                       wait_minutes |-> Some(PyInt(blocked_until - t, MinTicks) + 1)]
                 ELSE [allowed |-> TRUE, reason |-> "none", message |-> "none",
                       wait_minutes |-> None]]

can_post(tr, t) ==
    LET st == tr.state
        blocked_until == Get0(st, "post_blocked_until")
        time_since_last == t - st.last_post_time
        cooldown == post_cooldown_minutes * MinTicks
        res ==
            IF blocked_until # 0 /\ t < blocked_until
            THEN [allowed |-> FALSE, reason |-> "cooldown",
                  message |-> "Post cooldown active (server rate limit)",
                  wait_minutes |-> Some(PyInt(blocked_until - t, MinTicks) + 1)]
            ELSE IF time_since_last < cooldown
            THEN [allowed |-> FALSE, reason |-> "cooldown",
                  message |-> "Post cooldown active (1 post per 30 minutes)",
                  wait_minutes |-> Some(PyInt(cooldown - time_since_last, MinTicks) + 1)]
            ELSE [allowed |-> TRUE, reason |-> "none", message |-> "none",
                  wait_minutes |-> None]
    IN  [tr |-> tr, res |-> res]

record_comment(tr, t) ==
    LET tr1 == _check_and_reset_daily(tr, t)
    IN  _save([tr1 EXCEPT !.state.comments_today = @ + 1,
                          !.state.last_comment_time = t,
                          !.state.comment_blocked_until = 0])

\* a record_post that starts with the daily reset, as record_comment does
record_post_resets(tr, t) ==
    LET tr1 == _check_and_reset_daily(tr, t)
    IN  _save([tr1 EXCEPT !.state.last_post_time = t,
                          !.state.post_blocked_until = 0])

\* record_post without the write of the file
record_post_unsaved(tr, t) ==
    [tr EXCEPT !.state.last_post_time = t,
               !.state.post_blocked_until = 0]

record_post(tr, t) ==
    _save([tr EXCEPT !.state.last_post_time = t,
                     !.state.post_blocked_until = 0])

get_status(tr, t) ==
    LET tr1 == _check_and_reset_daily(tr, t)
        cc == can_comment(tr1, t)
        cp == can_post(cc.tr, t)
        comment_check == cc.res
        post_check == cp.res
        st == cp.tr.state
        comment_next ==
            IF comment_check.allowed THEN [at |-> "now", n |-> 0]
            ELSE IF comment_check.wait_seconds # None
                 THEN [at |-> "s", n |-> comment_check.wait_seconds[1]]
                 ELSE [at |-> comment_check.wait_until[1], n |-> 0]
        post_next ==
            IF post_check.allowed THEN [at |-> "now", n |-> 0]
            ELSE [at |-> "m", n |-> post_check.wait_minutes[1]]
    IN  [tr |-> cp.tr,
         res |-> [reset_date |-> st.reset_date,
                  used |-> st.comments_today,
                  limit |-> comments_per_day,
                  remaining |-> comments_per_day - st.comments_today,
                  can_comment |-> comment_check.allowed,
                  comment_next_available |-> comment_next,
                  can_post |-> post_check.allowed,
                  cooldown_minutes |-> post_cooldown_minutes,
                  post_next_available |-> post_next]]

-----------------------------------------------------------------------------
(* The clock and the state file a process starts from *)

\* the process starts half an hour before a UTC midnight
StartTime == 2 * DayTicks - post_cooldown_minutes * MinTicks

\* the clock moves on by a fraction of a second, by the post cooldown (to
\* midnight, from StartTime), by a day
ClockSteps == {1, post_cooldown_minutes * MinTicks, DayTicks}

\* rate_limits.json as initialize_rate_limits.py writes it: no *_blocked_until
LegacyFiles ==
    {[kind |-> "json",
      data |-> [reset_date |-> d, comments_today |-> initial_comments_today,
                last_comment_time |-> 0, last_post_time |-> 0]] :
        d \in {today(StartTime) - 1, today(StartTime)}}

\* rate_limits.json as an earlier run of the tracker left it
SavedFiles ==
    {[kind |-> "json",
      data |-> [reset_date |-> d, comments_today |-> c,
                last_comment_time |-> lc, last_post_time |-> 0,
                comment_blocked_until |-> 0, post_blocked_until |-> 0]] :
        d \in {today(StartTime) - 1, today(StartTime)},
        c \in {comments_per_day - 1},
        lc \in {StartTime - (comment_cooldown_seconds * SecTicks) \div 2}}

InitialFiles ==
    {[kind |-> "absent"], [kind |-> "corrupt"]} \cup LegacyFiles \cup SavedFiles

\* the hints a 429 response carries
RetryHints == {NoHint, BadHint, Num(1),
               Num(comment_cooldown_seconds * TicksPerSec),
               Num(2 * comment_cooldown_seconds * TicksPerSec)}
RemainingHints == {NoHint, BadHint, Num(-TicksPerSec), Num(TicksPerSec),
                   Num(60 * TicksPerSec)}
MinuteHints == {NoHint, BadHint, Num(TicksPerSec + 1), Num(15 * TicksPerSec)}
\* the (retry_after_seconds, daily_remaining) pairs of a comment 429
CommentHints ==
    {<<r, NoHint>> : r \in RetryHints} \cup {<<NoHint, m>> : m \in RemainingHints}
        \cup {<<Num(comment_cooldown_seconds * TicksPerSec), Num(TicksPerSec)>>}

Tracker == [state |-> state, file |-> file]

\* the record of a call on the tracker
Call(op, retry, remaining, res) ==
    [op |-> op, at |-> now, pre |-> state,
     retry |-> retry, remaining |-> remaining, res |-> res]

NoExec == [tool |-> "none"]

\* the client has not been called
NoRequest == [pc |-> "idle"]

\* no request is being served and no shared call is in progress; the
\* suggestions file and the activity log are empty
ThreadsIdle ==
    /\ suggestions = <<>> /\ contexts = <<>>
    /\ dash = [pc |-> "idle", added |-> 0] /\ agent = [pc |-> "idle"]
    /\ serial = [calls |-> {}]
    /\ activities = <<>> /\ subscribers = <<>> /\ gets = 0
    /\ request = NoRequest
    /\ latest_activity = "none"

LoopIdle ==
    /\ pc = "idle" /\ iteration = 0 /\ done = FALSE /\ tool_calls = <<>>
    /\ conversation_history = <<"system">> /\ turns = 0
    /\ running = TRUE /\ total_actions = 0 /\ successful_actions = 0
    /\ ThreadsIdle

-----------------------------------------------------------------------------
(* Spec: the tracker under every sequence of calls of its public methods   *)

InitTracker ==
    /\ now = StartTime
    /\ advances = 0
    /\ writes = 0
    /\ \E f \in InitialFiles :
          LET tr == __init__(f, StartTime)
          IN  /\ state = tr.state
              /\ file = tr.file
              /\ last = [op |-> "__init__", at |-> StartTime,
                         pre |-> tr.state,
                         retry |-> NoHint, remaining |-> NoHint, res |-> None]

Init ==
    /\ InitTracker
    /\ exec = NoExec
    /\ LoopIdle

\* no call has been made on the tracker since the clock moved to t
NoCall(t) ==
    [op |-> "none", at |-> t, pre |-> state,
     retry |-> NoHint, remaining |-> NoHint, res |-> None]

\* time passes
Tick ==
    /\ advances < MaxAdvances
    /\ \E d \in ClockSteps : now' = now + d
    /\ advances' = advances + 1
    /\ last' = NoCall(now')
    /\ UNCHANGED <<state, file, writes, exec, loopVars, threadVars, latest_activity>>

\* the tracker moves to tr, the call is recorded
Called(tr, op, retry, remaining, res) ==
    /\ state' = tr.state
    /\ file' = tr.file
    /\ last' = Call(op, retry, remaining, res)
    /\ UNCHANGED <<now, advances, exec, loopVars, threadVars, latest_activity>>

Read == UNCHANGED writes
Write == writes < MaxWrites /\ writes' = writes + 1

CanComment ==
    LET r == can_comment(Tracker, now)
    IN  Read /\ Called(r.tr, "can_comment", NoHint, NoHint, r.res)

CanPost ==
    LET r == can_post(Tracker, now)
    IN  Read /\ Called(r.tr, "can_post", NoHint, NoHint, r.res)

RecordComment ==
    /\ Write
    /\ Called(record_comment(Tracker, now), "record_comment", NoHint, NoHint, None)

RecordPost ==
    Write /\ Called(record_post(Tracker, now), "record_post", NoHint, NoHint, None)

ApplyCommentRateLimit ==
    \E h \in CommentHints :
        Write /\ Called(apply_comment_rate_limit(Tracker, now, h[1], h[2]),
                        "apply_comment_rate_limit", h[1], h[2], None)

ApplyPostRateLimit ==
    \E retry \in MinuteHints :
        Write /\ Called(apply_post_rate_limit(Tracker, now, retry),
               "apply_post_rate_limit", retry, NoHint, None)

GetStatus ==
    LET r == get_status(Tracker, now)
    IN  Read /\ Called(r.tr, "get_status", NoHint, NoHint, r.res)

\* the process is started again: a new tracker is constructed from the file
Restart ==
    LET tr == __init__(file, now)
    IN  Read /\ Called(tr, "__init__", NoHint, NoHint, None)

Next ==
    \/ Tick
    \/ CanComment
    \/ CanPost
    \/ RecordComment
    \/ RecordPost
    \/ ApplyCommentRateLimit
    \/ ApplyPostRateLimit
    \/ GetStatus
    \/ Restart

Spec == Init /\ [][Next]_vars

-----------------------------------------------------------------------------
(* Properties of the tracker under Spec *)

\* the operations that begin with _check_and_reset_daily
DailyOps == {"can_comment", "record_comment", "apply_comment_rate_limit",
             "get_status", "__init__"}

\* the call found a reset_date that is not the day of the clock
Stale == last.op \in DailyOps /\ last.pre.reset_date # today(last.at)

\* comments_today after the call when the call started from a count of c
CountFrom(c) ==
    CASE last.op = "record_comment" -> c + 1
      [] last.op = "apply_comment_rate_limit" /\ last.remaining.kind = "num" ->
            Min(comments_per_day,
                Max(0, comments_per_day - Max(0, HintInt(last.remaining))))
      [] OTHER -> c

\* C9: a call of can_comment, record_comment, apply_comment_rate_limit or
\* get_status (or a restart) that finds a reset_date other than the current
\* UTC day sets reset_date to that day and comments_today to 0 before it
\* evaluates a limit or increments the counter, however far the clock moved;
\* reset_date changes only then (so at most once per UTC day), and never
\* without the count restarting from 0.
C9_DailyRollover ==
    /\ Stale =>
        /\ state.reset_date = today(last.at)
        /\ state.comments_today = CountFrom(0)
        /\ last.op = "can_comment" =>
              /\ last.res.reason # "daily_limit"
              /\ last.res.comments_remaining = comments_per_day
        /\ last.op = "get_status" =>
              last.res.used = 0 /\ last.res.remaining = comments_per_day
    /\ state.reset_date # last.pre.reset_date => Stale
    /\ last.op \in DailyOps /\ ~Stale =>
        /\ state.reset_date = last.pre.reset_date
        /\ state.comments_today = CountFrom(last.pre.comments_today)

\* C9 witness: after a day or more of idling, record_comment found yesterday's
\* count of 49 and left a count of 1
C9_Witness ==
    /\ last.op = "record_comment"
    /\ last.pre.reset_date < today(last.at)
    /\ last.pre.comments_today = comments_per_day - 1
    /\ state.comments_today = 1
    /\ state.reset_date = today(now)

\* the dictionaries a tracker newly constructed from the file would return
FreshTracker == __init__(file, now)

\* C10: after any sequence of tracker operations the state file holds the
\* in-memory state, and a tracker constructed from the file answers
\* can_comment and can_post as the running tracker does at the same time.
C10_RoundTrip ==
    /\ file = [kind |-> "json", data |-> state]
    /\ can_comment(FreshTracker, now).res = can_comment(Tracker, now).res
    /\ can_post(FreshTracker, now).res = can_post(Tracker, now).res

\* C10 witness: two writes, the later a server block on posts that is in
\* force and in the file
C10_Witness ==
    /\ writes = MaxWrites
    /\ last.op = "apply_post_rate_limit"
    /\ state.post_blocked_until > now
    /\ state.last_comment_time = now
    /\ file.kind = "json" /\ file.data.post_blocked_until = state.post_blocked_until
    /\ ~can_post(FreshTracker, now).res.allowed

-----------------------------------------------------------------------------
(* SpecComment: the comment side of the tracker on the scale of the        *)
(* comment cooldown.  The clock moves by a tick, by the cooldown less a    *)
(* tick and by the cooldown, so that calls fall just before, on and just   *)
(* after the end of a cooldown or of a server block.                       *)

CooldownSteps ==
    {1, comment_cooldown_seconds * SecTicks - 1, comment_cooldown_seconds * SecTicks}

\* time passes; the latest call stays on record
Pass ==
    /\ advances < MaxAdvances
    /\ \E d \in CooldownSteps : now' = now + d
    /\ advances' = advances + 1
    /\ UNCHANGED <<state, file, last, writes, exec, loopVars, threadVars, latest_activity>>

NextComment ==
    \/ Pass
    \/ CanComment
    \/ RecordComment
    \/ ApplyCommentRateLimit

SpecComment == Init /\ [][NextComment]_vars

\* a server block on comments is in force in st at time t
CommentBlocked(st, t) ==
    Get0(st, "comment_blocked_until") # 0 /\ t < Get0(st, "comment_blocked_until")

\* C7: apply_comment_rate_limit with a retry-after of X whole seconds sets
\* the block end to max(existing block end, now + X), so it never moves an
\* existing block end back; and when no block was active and X >= 1, the next
\* can_comment made before now + X denies with reason cooldown and a wait of
\* the X seconds less the time gone by, to within a second.
C7_ApplyState ==
    (last.op = "apply_comment_rate_limit" /\ last.retry.kind = "num") =>
        /\ state.comment_blocked_until =
              Max(last.pre.comment_blocked_until,
                  last.at + HintInt(last.retry) * SecTicks)
        /\ state.comment_blocked_until >= last.pre.comment_blocked_until

C7_NextCheck ==
    (/\ last.op = "apply_comment_rate_limit"
     /\ last.retry.kind = "num"
     /\ HintInt(last.retry) >= 1
     /\ ~CommentBlocked(last.pre, last.at)
     /\ last'.op = "can_comment"
     /\ last'.at < last.at + HintInt(last.retry) * SecTicks)
    => LET X == HintInt(last.retry)
           gone == last'.at - last.at
           wait == last'.res.wait_seconds[1]
       IN  /\ ~last'.res.allowed
           /\ last'.res.reason = "cooldown"
           /\ last'.res.wait_seconds # None
           /\ wait * SecTicks > X * SecTicks - gone
           /\ wait * SecTicks <= X * SecTicks - gone + SecTicks

C7_MaxOfTwo == []C7_ApplyState /\ [][C7_NextCheck]_vars

\* C7 witness: a second apply with the shorter retry-after found the longer
\* block in force and left its end where it was
C7_Witness ==
    /\ last.op = "apply_comment_rate_limit"
    /\ last.retry = Num(comment_cooldown_seconds * TicksPerSec)
    /\ CommentBlocked(last.pre, last.at)
    /\ last.pre.comment_blocked_until > last.at + HintInt(last.retry) * SecTicks
    /\ state.comment_blocked_until = last.pre.comment_blocked_until

\* can_comment found neither a server block in force nor the daily cap reached
LocalCheck ==
    /\ last.op = "can_comment"
    /\ ~CommentBlocked(state, last.at)
    /\ state.comments_today < comments_per_day

\* the time gone by, at the latest call, since the last recorded comment
SinceLast == last.at - state.last_comment_time

\* C8 (states): with the daily cap not reached and no server block,
\* can_comment denies with reason cooldown at every time less than 20 s after
\* the last record_comment, with a wait of 20 s at the time of the record and
\* of no more than the time left, and allows from 20 s after it on.
C8_CooldownState ==
    LocalCheck =>
        IF SinceLast < comment_cooldown_seconds * SecTicks
        THEN /\ ~last.res.allowed
             /\ last.res.reason = "cooldown"
             /\ last.res.wait_seconds # None
             /\ last.res.wait_seconds[1] <= comment_cooldown_seconds
             /\ last.res.wait_seconds[1] * SecTicks
                    <= comment_cooldown_seconds * SecTicks - SinceLast
             /\ SinceLast = 0 => last.res.wait_seconds[1] = comment_cooldown_seconds
        ELSE last.res.allowed

\* C8 (steps): of two successive can_comment calls in the same cooldown, the
\* later does not report the longer wait.
C8_CooldownStep ==
    (/\ LocalCheck /\ ~last.res.allowed
     /\ LocalCheck' /\ ~last'.res.allowed
     /\ state'.last_comment_time = state.last_comment_time
     /\ last'.at >= last.at)
    => last'.res.wait_seconds[1] <= last.res.wait_seconds[1]

\* C8: after record_comment at t, cap not reached and no server block,
\* can_comment denies with reason cooldown throughout [t, t + 20 s), its
\* wait_seconds starts at 20 and never increases as time advances, and it
\* allows at every time from t + 20 s on.
C8_Cooldown == []C8_CooldownState /\ [][C8_CooldownStep]_vars

\* C8 witness: a record_comment was made in this run, and a can_comment made
\* a tick before the end of its cooldown has denied, with a wait of 0
C8_Witness ==
    /\ LocalCheck
    /\ writes > 0
    /\ state.last_comment_time >= StartTime
    /\ SinceLast = comment_cooldown_seconds * SecTicks - 1
    /\ ~last.res.allowed
    /\ last.res.wait_seconds[1] = 0
    /\ last.pre = state

\* the latest call was a can_comment that denied with reason cooldown
CooldownDenied ==
    /\ last.op = "can_comment"
    /\ ~last.res.allowed
    /\ last.res.reason = "cooldown"

\* can_comment called again after exactly the wait the denial reported
CalledAfterWait ==
    can_comment(Tracker, last.at + last.res.wait_seconds[1] * SecTicks).res

\* the wait reported under the server's block is enough: after it the
\* block no longer denies
BlockedWaitSuffices ==
    CooldownDenied
        /\ last.res.message = "Comment cooldown active (server rate limit)"
    => CalledAfterWait.message # last.res.message

\* C39: the wait_seconds of a can_comment that denies with reason cooldown
\* is never too short, under the server's block and under the local
\* cooldown: a can_comment made exactly wait_seconds later is not denied
\* for the same block or cooldown.
C39_WaitSuffices ==
    CooldownDenied =>
        \/ CalledAfterWait.allowed
        \/ CalledAfterWait.message # last.res.message

-----------------------------------------------------------------------------
(* SpecDay: a fresh tracker and record_comment calls within one UTC day,   *)
(* the clock moved on by more than the cooldown after a call.              *)

InitDay ==
    /\ now = StartTime
    /\ advances = 0
    /\ writes = 0
    /\ \E f \in {[kind |-> "absent"], [kind |-> "corrupt"]} :
          LET tr == __init__(f, StartTime)
          IN  /\ state = tr.state
              /\ file = tr.file
              /\ last = [op |-> "__init__", at |-> StartTime,
                         pre |-> tr.state,
                         retry |-> NoHint, remaining |-> NoHint, res |-> None]
    /\ exec = NoExec
    /\ LoopIdle

\* 21 s pass after a comment was recorded, within the day
Wait ==
    LET d == (comment_cooldown_seconds + 1) * SecTicks
    IN  /\ state.last_comment_time = now
        /\ today(now + d) = today(now)
        /\ now' = now + d
        /\ UNCHANGED <<state, file, last, advances, writes, exec, loopVars, threadVars, latest_activity>>

\* record_comment, the calls counted in writes
RecordCommentDay ==
    /\ writes < comments_per_day + MaxOver
    /\ writes' = writes + 1
    /\ Called(record_comment(Tracker, now), "record_comment", NoHint, NoHint, None)

NextDay ==
    \/ Wait
    \/ RecordCommentDay
    \/ CanComment

SpecDay == InitDay /\ [][NextDay]_vars

\* C3: after n record_comment calls on a fresh tracker within one UTC day
\* comments_today is n, and can_comment gives the reason daily_limit exactly
\* when n >= 50: never for n < 50, and with allowed = false from n = 50 on.
C3_DailyCount ==
    /\ state.comments_today = writes
    /\ last.op = "can_comment" =>
          /\ (last.res.reason = "daily_limit") <=> (writes >= comments_per_day)
          /\ writes >= comments_per_day => ~last.res.allowed

\* C3 witness: the 50th record_comment was made 49 waits of 21 s after the
\* first, and the can_comment after one more wait denies with daily_limit
C3_Witness ==
    /\ writes = comments_per_day
    /\ now = StartTime
              + comments_per_day * (comment_cooldown_seconds + 1) * SecTicks
    /\ last.op = "can_comment"
    /\ last.at = now
    /\ ~last.res.allowed
    /\ last.res.reason = "daily_limit"
    /\ last.res.comments_remaining = 0

-----------------------------------------------------------------------------
(* ToolExecutor (tools.py).  A dictionary the executor returns is a record  *)
(* of the keys the program reads from it, a missing key being None; the     *)
(* flags success and rate_limit are FALSE when missing, as                  *)
(* result.get('success', False) and result.get('rate_limit') read them.     *)

EmptyResult ==
    [success |-> FALSE, rate_limit |-> FALSE, done |-> FALSE, error |-> None,
     reason |-> None, wait_seconds |-> None, wait_until |-> None,
     wait_minutes |-> None, comments_remaining |-> None]

\* the dictionary MoltbookClient._request returns: success, status_code (None
\* when the request raised before a response came) and the server's hints;
\* raises tells the call that does not return, an exception leaving it
Response(success, status_code, retry, remaining) ==
    [success |-> success, status_code |-> status_code,
     retry |-> retry, remaining |-> remaining, raises |-> FALSE]
Created == Response(TRUE, Some(201), NoHint, NoHint)
Refused == Response(FALSE, Some(403), NoHint, NoHint)
Unreachable == Response(FALSE, None, NoHint, NoHint)
Raises == [Unreachable EXCEPT !.raises = TRUE]
TooManyRequests(retry, remaining) == Response(FALSE, Some(429), retry, remaining)

\* a result of the client handed back as it is
Passed(response) ==
    [EmptyResult EXCEPT !.success = response.success,
                        !.error = IF response.success THEN None
                                  ELSE Some("remote error")]

\* a hint as the outcome carries it: result.get(key), None when missing
Got(h) == IF h.kind = "none" THEN None ELSE Some(h)

\* what a handler did: the tracker it leaves, the calls it made on the
\* tracker and the client in order, the last call on the tracker, the result
Ran(tr, calls, call, result) ==
    [tr |-> tr, calls |-> calls, call |-> call, result |-> result]
TrackerCall(op, at, pre, retry, remaining, res) ==
    [op |-> op, at |-> at, pre |-> pre,
     retry |-> retry, remaining |-> remaining, res |-> res]

\* a handler that sends the comment without asking the tracker
_create_comment_unchecked(tr, t, response) ==
    IF response.success
    THEN Ran(record_comment(tr, t), <<"client.create_comment", "record_comment">>,
             TrackerCall("record_comment", t, tr.state, NoHint, NoHint, None),
             Passed(response))
    ELSE Ran(tr, <<"client.create_comment">>, None, Passed(response))

_create_comment(tr, t, response) ==
    LET c == can_comment(tr, t)
        can_comment_res == c.res
        checked == TrackerCall("can_comment", t, tr.state, NoHint, NoHint, c.res)
    IN  IF ~can_comment_res.allowed
        THEN Ran(c.tr, <<"can_comment">>, checked,
                 [EmptyResult EXCEPT
                    !.error = Some(can_comment_res.message),
                    !.rate_limit = TRUE,
                    !.reason = Some(can_comment_res.reason),
                    !.comments_remaining = Some(can_comment_res.comments_remaining),
                    !.wait_seconds = can_comment_res.wait_seconds,
                    !.wait_until = can_comment_res.wait_until])
        ELSE IF response.success
        THEN Ran(record_comment(c.tr, t),
                 <<"can_comment", "client.create_comment", "record_comment">>,
                 TrackerCall("record_comment", t, c.tr.state, NoHint, NoHint, None),
                 Passed(response))
        ELSE IF response.status_code = Some(429)
        THEN Ran(apply_comment_rate_limit(c.tr, t, response.retry, response.remaining),
                 <<"can_comment", "client.create_comment", "apply_comment_rate_limit">>,
                 TrackerCall("apply_comment_rate_limit", t, c.tr.state,
                             response.retry, response.remaining, None),
                 [EmptyResult EXCEPT
                    !.rate_limit = TRUE,
                    !.error = Some("Comment rate limit reached"),
                    !.reason = Some(IF response.retry.kind # "none"
                                    THEN "cooldown" ELSE "daily_limit"),
                    !.wait_seconds = Got(response.retry),
                    !.comments_remaining = Got(response.remaining)])
        ELSE Ran(c.tr, <<"can_comment", "client.create_comment">>, checked,
                 Passed(response))

_create_post(tr, t, response) ==
    LET c == can_post(tr, t)
        can_post_res == c.res
        checked == TrackerCall("can_post", t, tr.state, NoHint, NoHint, c.res)
    IN  IF ~can_post_res.allowed
        THEN Ran(c.tr, <<"can_post">>, checked,
                 [EmptyResult EXCEPT
                    !.error = Some(can_post_res.message),
                    !.rate_limit = TRUE,
                    !.wait_minutes = can_post_res.wait_minutes])
        ELSE IF response.success
        THEN Ran(record_post(c.tr, t),
                 <<"can_post", "client.create_post", "record_post">>,
                 TrackerCall("record_post", t, c.tr.state, NoHint, NoHint, None),
                 Passed(response))
        ELSE IF response.status_code = Some(429)
        THEN Ran(apply_post_rate_limit(c.tr, t, response.retry),
                 <<"can_post", "client.create_post", "apply_post_rate_limit">>,
                 TrackerCall("apply_post_rate_limit", t, c.tr.state,
                             response.retry, NoHint, None),
                 [EmptyResult EXCEPT
                    !.rate_limit = TRUE,
                    !.error = Some("Post rate limit reached"),
                    !.wait_minutes = Got(response.retry)])
        ELSE Ran(c.tr, <<"can_post", "client.create_post">>, checked,
                 Passed(response))

\* a handler that hands the link post to the client and forgets to record it
_create_link_post_unrecorded(tr, t, response) ==
    Ran(tr, <<"client.create_post">>, None, Passed(response))

\* the same handler as _create_post, the post carrying a url for its content
_create_link_post(tr, t, response) ==
    LET c == can_post(tr, t)
        can_post_res == c.res
        checked == TrackerCall("can_post", t, tr.state, NoHint, NoHint, c.res)
    IN  IF ~can_post_res.allowed
        THEN Ran(c.tr, <<"can_post">>, checked,
                 [EmptyResult EXCEPT
                    !.error = Some(can_post_res.message),
                    !.rate_limit = TRUE,
                    !.wait_minutes = can_post_res.wait_minutes])
        ELSE IF response.success
        THEN Ran(record_post(c.tr, t),
                 <<"can_post", "client.create_post", "record_post">>,
                 TrackerCall("record_post", t, c.tr.state, NoHint, NoHint, None),
                 Passed(response))
        ELSE IF response.status_code = Some(429)
        THEN Ran(apply_post_rate_limit(c.tr, t, response.retry),
                 <<"can_post", "client.create_post", "apply_post_rate_limit">>,
                 TrackerCall("apply_post_rate_limit", t, c.tr.state,
                             response.retry, NoHint, None),
                 [EmptyResult EXCEPT
                    !.rate_limit = TRUE,
                    !.error = Some("Post rate limit reached"),
                    !.wait_minutes = Got(response.retry)])
        ELSE Ran(c.tr, <<"can_post", "client.create_post">>, checked,
                 Passed(response))

\* one of the handlers that hand the call to the client and its result back
_upvote_post(tr, t, response) ==
    Ran(tr, <<"client.upvote_post">>, None, Passed(response))

_done_for_now(tr, t, response) ==
    Ran(tr, <<>>, None, [EmptyResult EXCEPT !.success = TRUE, !.done = TRUE,
                                            !.reason = Some("Taking a break")])

\* the tools of tool_map that the model tells apart
tool_map ==
    {"create_post", "create_link_post", "create_comment", "upvote_post",
     "done_for_now"}

ClientCalls ==
    {"client.create_comment", "client.create_post", "client.upvote_post"}

Made(calls, names) == \E i \in 1..Len(calls) : calls[i] \in names

\* a refusal that does not say which tool was asked for
unknown_tool_unnamed(tool_name) ==
    [EmptyResult EXCEPT !.error = Some(<<"Unknown tool: ", "">>)]

\* {"success": False, "error": f"Unknown tool: {tool_name}"}
unknown_tool(tool_name) ==
    [EmptyResult EXCEPT !.error = Some(<<"Unknown tool: ", tool_name>>)]

\* an except clause that keeps the exception's message to itself
caught_silently(e) == EmptyResult

\* except Exception as e: {"success": False, "error": str(e)}
caught(e) == [EmptyResult EXCEPT !.error = Some(e)]

\* the handler of a registered tool
tool_handler(tr, t, tool_name, response) ==
    CASE tool_name = "create_comment" -> _create_comment(tr, t, response)
      [] tool_name = "create_post" -> _create_post(tr, t, response)
      [] tool_name = "create_link_post" -> _create_link_post(tr, t, response)
      [] tool_name = "upvote_post" -> _upvote_post(tr, t, response)
      [] tool_name = "done_for_now" -> _done_for_now(tr, t, response)

\* execute: arguments_ok is whether the arguments fit the handler's
\* parameters; when they do not, the call raises before the handler runs.
\* A client call that raises leaves the handler where a failed call without
\* a status would have it return, and the exception reaches the except
\* clause of execute.
execute(tr, t, tool_name, arguments_ok, response) ==
    IF tool_name \notin tool_map
    THEN Ran(tr, <<>>, None, unknown_tool(tool_name))
    ELSE IF ~arguments_ok
    THEN Ran(tr, <<>>, None, caught("TypeError"))
    ELSE IF response.raises
    THEN LET r == tool_handler(tr, t, tool_name, Unreachable)
         IN  IF Made(r.calls, ClientCalls)
             THEN [r EXCEPT !.result = caught("Exception")]
             ELSE r
    ELSE tool_handler(tr, t, tool_name, response)

-----------------------------------------------------------------------------
(* SpecExec: the executor run on every tool, against every response of the *)
(* platform, the clock moving between executions                           *)

RateLimitedTools == {"create_comment", "create_post", "create_link_post"}

\* the names execute is called with: the tools and a name tool_map lacks
ToolNames == tool_map \cup {"no_such_tool"}

\* the (retry_after_seconds, daily_remaining) pairs of a comment's 429:
\* no hint, a hint int() raises on, a retry-after below a second, the
\* cooldown as retry-after, nothing or one comment remaining
ExecCommentHints ==
    {<<NoHint, NoHint>>, <<BadHint, NoHint>>, <<Num(1), NoHint>>,
     <<Num(comment_cooldown_seconds * TicksPerSec), NoHint>>,
     <<NoHint, Num(0)>>, <<NoHint, Num(TicksPerSec)>>}

\* the responses of the platform to a tool's request
Responses(tool_name) ==
    IF tool_name = "create_comment"
    THEN {Created, Refused, Unreachable, Raises}
            \cup {TooManyRequests(h[1], h[2]) : h \in ExecCommentHints}
    ELSE IF tool_name \in {"create_post", "create_link_post"}
    THEN {Created, Refused, Unreachable, Raises}
            \cup {TooManyRequests(retry, NoHint) : retry \in MinuteHints}
    ELSE IF tool_name \in tool_map
    THEN {Created, Refused, Raises}
    ELSE {Unreachable}

WriteCalls ==
    {"record_comment", "record_post", "apply_comment_rate_limit",
     "apply_post_rate_limit"}

\* the platform answered the latest execute with a failure of status 429
Failed429(e) ==
    /\ e.tool # "none"
    /\ e.response # None
    /\ ~e.response[1].success
    /\ e.response[1].status_code = Some(429)

\* execute(tool_name, arguments) has run: the tracker moves, the execution
\* is recorded with the tracker it found, what it called and what it returned
Executed(tool_name, arguments_ok, response) ==
    \E r \in {execute(Tracker, now, tool_name, arguments_ok, response)} :
        /\ writes' = writes + (IF Made(r.calls, WriteCalls) THEN 1 ELSE 0)
        /\ writes' <= MaxWrites
        /\ state' = r.tr.state
        /\ file' = r.tr.file
        /\ last' = IF r.call = None THEN last ELSE r.call
        /\ exec' = [tool |-> tool_name, at |-> now, pre |-> Tracker,
                    arguments_ok |-> arguments_ok,
                    response |-> IF Made(r.calls, ClientCalls)
                                 THEN Some(response) ELSE None,
                    calls |-> r.calls, result |-> r.result,
                    after429 |-> /\ Failed429(exec)
                                 /\ exec.tool = tool_name
                                 /\ exec.at = now]
        /\ UNCHANGED <<now, advances, threadVars>>

\* execute is called with arguments that do not fit the tool, or with
\* arguments that do and the platform answers
Execute(tool_name) ==
    /\ \/ Executed(tool_name, FALSE, Unreachable)
       \/ \E response \in Responses(tool_name) :
             Executed(tool_name, TRUE, response)
    /\ writes' <= MaxExecWrites
    /\ UNCHANGED <<loopVars, threadVars, latest_activity>>

\* the executor is constructed on no file or on the file of an earlier run
InitExec ==
    /\ now = StartTime
    /\ advances = 0
    /\ writes = 0
    /\ \E f \in {[kind |-> "absent"]} \cup SavedFiles :
          LET tr == __init__(f, StartTime)
          IN  /\ state = tr.state
              /\ file = tr.file
              /\ last = [op |-> "__init__", at |-> StartTime,
                         pre |-> tr.state,
                         retry |-> NoHint, remaining |-> NoHint, res |-> None]
    /\ exec = NoExec
    /\ LoopIdle

\* the clock moves on by a fraction of a second, by the comment cooldown
ExecSteps == {1, comment_cooldown_seconds * SecTicks}

\* time passes; no call has been made since
Elapse ==
    /\ advances < MaxAdvances
    /\ \E d \in ExecSteps : now' = now + d
    /\ advances' = advances + 1
    /\ last' = NoCall(now')
    /\ exec' = NoExec
    /\ UNCHANGED <<state, file, writes, loopVars, threadVars, latest_activity>>

NextExec ==
    \/ Elapse
    \/ \E tool_name \in ToolNames : Execute(tool_name)

SpecExec == InitExec /\ [][NextExec]_vars

\* the local check the handler of a rate-limited tool starts with, made on
\* the tracker the execution found
LocalCheckOf(e) ==
    IF e.tool = "create_comment" THEN can_comment(e.pre, e.at)
    ELSE can_post(e.pre, e.at)

\* the latest execute ran the handler of a rate-limited tool while the
\* tracker's check denied
DeniedLocally(e) ==
    /\ e.tool \in RateLimitedTools
    /\ e.arguments_ok
    /\ ~LocalCheckOf(e).res.allowed

\* C1: when execute runs create_comment while can_comment() denies, or
\* create_post / create_link_post while can_post() denies, the result has
\* success false and the rate-limit flag set, carries the check's message and
\* its reason and wait fields (reason, wait_seconds, wait_until and
\* comments_remaining for a comment, wait_minutes for a post), the client is
\* not called, and no record_* or apply_*_rate_limit is performed: the only
\* call made is the check, and the tracker is left as the check left it.
C1_DeniedLocally ==
    DeniedLocally(exec) =>
        LET c == LocalCheckOf(exec)
            result == exec.result
        IN  /\ ~result.success
            /\ result.rate_limit
            /\ result.error = Some(c.res.message)
            /\ exec.tool = "create_comment" =>
                  /\ result.reason = Some(c.res.reason)
                  /\ result.wait_seconds = c.res.wait_seconds
                  /\ result.wait_until = c.res.wait_until
                  /\ result.comments_remaining = Some(c.res.comments_remaining)
                  /\ result.wait_seconds # None \/ result.wait_until # None
                  /\ exec.calls = <<"can_comment">>
            /\ exec.tool # "create_comment" =>
                  /\ result.wait_minutes = c.res.wait_minutes
                  /\ result.wait_minutes # None
                  /\ exec.calls = <<"can_post">>
            /\ exec.response = None
            /\ ~Made(exec.calls, ClientCalls \cup WriteCalls)
            /\ state = c.tr.state
            /\ file = c.tr.file

\* a comment is refused under the block a 429 of the platform has just set
C1_Witness ==
    /\ DeniedLocally(exec)
    /\ exec.tool = "create_comment"
    /\ exec.after429
    /\ exec.result.rate_limit
    /\ exec.result.reason = Some("cooldown")
    /\ exec.result.wait_seconds = Some(comment_cooldown_seconds + 1)

\* C2: after execute of create_comment, create_post or create_link_post got
\* a failure of status 429 from the platform, the outcome carries the
\* rate-limit flag and the tracker has been updated so that an execute of the
\* same tool that follows at once is rejected locally, without a call of the
\* client; for every 429 response, with or without hints.
C2_RejectedAfter429 ==
    exec.tool \in RateLimitedTools =>
        /\ Failed429(exec) => exec.result.rate_limit /\ ~exec.result.success
        /\ exec.after429 /\ exec.arguments_ok =>
              /\ ~Made(exec.calls, ClientCalls)
              /\ exec.result.rate_limit

\* C18: execute called with a name tool_map does not hold returns a failure
\* whose error names the tool, calls neither the client nor the tracker and
\* leaves the tracker's state and file as they were.
C18_UnknownTool ==
    exec.tool \notin tool_map \cup {"none"} =>
        /\ ~exec.result.success
        /\ exec.result.error = Some(<<"Unknown tool: ", exec.tool>>)
        /\ exec.calls = <<>>
        /\ state = exec.pre.state
        /\ file = exec.pre.file

\* an unknown tool was asked for on a tracker that has recorded a comment
C18_Witness ==
    /\ exec.tool = "no_such_tool"
    /\ state.comments_today > 0
    /\ state.last_comment_time > 0

\* the latest execute ran into an exception: the arguments did not fit the
\* handler, or the client raised when the handler called it
Raised(e) ==
    /\ e.tool \in tool_map
    /\ \/ ~e.arguments_ok
       \/ /\ e.response # None
          /\ e.response[1].raises
          /\ Made(e.calls, ClientCalls)

\* C19: execute does not raise: an exception of the handler or of the
\* client comes back as a failure carrying an error message, and nothing
\* is recorded on the tracker for it.
C19_NeverRaises ==
    Raised(exec) =>
        /\ ~exec.result.success
        /\ exec.result.error # None
        /\ ~Made(exec.calls, WriteCalls)

\* the client raised under a post the tracker allowed
C19_Witness ==
    /\ exec.tool = "create_post"
    /\ exec.arguments_ok
    /\ exec.response = Some(Raises)
    /\ Made(exec.calls, ClientCalls)
    /\ exec.result.error = Some("Exception")

Count(calls, name) == Cardinality({i \in DOMAIN calls : calls[i] = name})

\* the latest execute sent the request and the platform accepted it
Accepted(e) ==
    /\ e.arguments_ok
    /\ Made(e.calls, ClientCalls)
    /\ e.response # None
    /\ e.response[1].success
    /\ ~e.response[1].raises

\* C20: record_comment is called once by an execute of create_comment
\* whose request the platform accepted, record_post once by an execute of
\* create_post or create_link_post whose request it accepted, and neither
\* is called by any other execute: not when the request failed or raised,
\* not when the local check denied it.
C20_RecordedOnce ==
    exec.tool # "none" =>
        /\ Count(exec.calls, "record_comment") =
              IF exec.tool = "create_comment" /\ Accepted(exec) THEN 1 ELSE 0
        /\ Count(exec.calls, "record_post") =
              IF exec.tool \in {"create_post", "create_link_post"}
                    /\ Accepted(exec)
              THEN 1 ELSE 0
        /\ Count(exec.calls, "record_comment") = 1 =>
              state.last_comment_time = exec.at
        /\ Count(exec.calls, "record_post") = 1 =>
              state.last_post_time = exec.at

\* a link post was accepted and recorded
C20_Witness ==
    /\ exec.tool = "create_link_post"
    /\ Accepted(exec)
    /\ Count(exec.calls, "record_post") = 1
    /\ state.last_post_time = now

-----------------------------------------------------------------------------
(* PeterGriffinPersonality (peter_personality.py): the conversation        *)
(* history, a message being its role                                       *)

reset_conversation == <<"system">>

add_to_history(history, role) ==
    LET appended == Append(history, role)
    IN  IF Len(appended) > max_history
        THEN SubSeq(appended, Len(appended) - max_history + 1, Len(appended))
        ELSE appended

\* a tool result that is not kept
add_tool_result_dropped(history) == history

add_tool_result(history) == Append(history, "tool")

-----------------------------------------------------------------------------
(* SpecLoop: AutonomousPeterGriffinAgent.autonomous_loop.  pc is the place  *)
(* of the loop: "idle" before the loop starts, "cycle_start" at the test of *)
(* while self.running, "while" at the test of the inner while, "for" in the *)
(* loop over the response's tool calls, "cycle_end" at the cycle's closing  *)
(* log, "except" in the handler of an unexpected error, "stopped" after the *)
(* loop has returned, "interrupted" after an interrupt has left the loop    *)
(* uncaught.                                                                *)

\* the tools the language model asks for: a tool that is executed, and the
\* tool that ends the cycle
LoopTools == {"create_comment", "done_for_now"}

\* response.message.tool_calls: none, or up to MaxToolCalls tool calls
ToolCallLists == UNION {[1..n -> LoopTools] : n \in 0..MaxToolCalls}

\* the responses of the platform during a cycle
LoopResponses(tool_name) ==
    {Created, Refused, Raises} \cup
        (IF tool_name = "create_comment"
         THEN {TooManyRequests(Num(comment_cooldown_seconds * TicksPerSec), NoHint)}
         ELSE {})

\* a loop that goes on as long as the model does not say it is done
while_condition_uncapped(d, i) == ~d

\* the test of the inner while
while_condition(d, i) == ~d /\ i < max_iterations_per_cycle

\* autonomous_loop is entered: check_status, then the first cycle or return
\* an identity check made inside the loop's try: its failure is handled as
\* an unexpected error, and the loop goes round
StartLoopInsideTry ==
    /\ pc = "idle"
    /\ \E claimed \in BOOLEAN :
          pc' = IF claimed THEN "cycle_start" ELSE "except"
    /\ UNCHANGED <<iteration, done, tool_calls, conversation_history, turns>>
    /\ UNCHANGED <<trackerVars, exec, threadVars, latest_activity, agentVars>>

StartLoop ==
    /\ pc = "idle"
    /\ \E claimed \in BOOLEAN :
          pc' = IF claimed THEN "cycle_start" ELSE "stopped"
    /\ UNCHANGED <<iteration, done, tool_calls, conversation_history, turns>>
    /\ UNCHANGED <<trackerVars, exec, threadVars, latest_activity, agentVars>>

\* a cycle starts: reset_conversation, build_context, iteration = 0, done = False
CycleStart ==
    /\ pc = "cycle_start"
    /\ running
    /\ conversation_history' = reset_conversation
    /\ iteration' = 0
    /\ done' = FALSE
    /\ turns' = 0
    /\ tool_calls' = <<>>
    /\ pc' = "while"
    /\ UNCHANGED <<trackerVars, exec, threadVars, latest_activity, agentVars>>

\* a cycle in which build_context raises
ContextRaises ==
    /\ pc = "cycle_start"
    /\ running
    /\ advances < MaxAdvances
    /\ conversation_history' = reset_conversation
    /\ pc' = "except"
    /\ UNCHANGED <<iteration, done, tool_calls, turns>>
    /\ UNCHANGED <<trackerVars, exec, threadVars, latest_activity, agentVars>>

\* the event the loop logs last for the result of a tool: the tool's own
\* event on success, an error event otherwise
logged_activity(tool_name, result) ==
    IF result.success
    THEN CASE tool_name = "create_comment" -> "comment_created"
           [] tool_name = "create_post" -> "post_created"
           [] tool_name = "upvote_post" -> "upvote"
           [] OTHER -> "none"
    ELSE "error"

\* a turn: iteration += 1, decide_next_actions (the context is added as a user
\* message, the language model answers), the answer is added as an assistant
\* message; without tool calls the cycle is done
DecideWith(responses) ==
    /\ pc = "while"
    /\ while_condition(done, iteration)
    /\ iteration' = iteration + 1
    /\ turns' = turns + 1
    /\ conversation_history' =
          add_to_history(add_to_history(conversation_history, "user"), "assistant")
    /\ \E response_tool_calls \in responses :
          IF response_tool_calls = <<>>
          THEN done' = TRUE /\ pc' = "cycle_end" /\ tool_calls' = <<>>
          ELSE done' = done /\ pc' = "for" /\ tool_calls' = response_tool_calls
    /\ \E content \in BOOLEAN :
          latest_activity' = IF content THEN "thought" ELSE "thinking"
    /\ UNCHANGED <<trackerVars, exec, threadVars, agentVars>>

Decide == DecideWith(ToolCallLists)

\* a turn in which the call of the language model raises
DecideRaises ==
    /\ pc = "while"
    /\ while_condition(done, iteration)
    /\ advances < MaxAdvances
    /\ iteration' = iteration + 1
    /\ turns' = turns + 1
    /\ conversation_history' = add_to_history(conversation_history, "user")
    /\ pc' = "except"
    /\ latest_activity' = "thinking"
    /\ UNCHANGED <<done, tool_calls, trackerVars, exec, threadVars, agentVars>>

\* the inner while ends
ExitWhile ==
    /\ pc = "while"
    /\ ~while_condition(done, iteration)
    /\ pc' = "cycle_end"
    /\ UNCHANGED <<iteration, done, tool_calls, conversation_history, turns>>
    /\ UNCHANGED <<trackerVars, exec, threadVars, latest_activity, agentVars>>

\* a for loop that hands done_for_now to the executor like any other tool
\* and goes on with the tool calls after it
RunToolCallThrough ==
    /\ pc = "for"
    /\ tool_calls # <<>>
    /\ \E response \in LoopResponses(Head(tool_calls)) :
          Executed(Head(tool_calls), TRUE, response)
    /\ latest_activity' = logged_activity(Head(tool_calls), exec'.result)
    /\ conversation_history' = add_tool_result(conversation_history)
    /\ tool_calls' = Tail(tool_calls)
    /\ UNCHANGED <<pc, iteration, done, turns, agentVars>>

\* the next tool call of the response: done_for_now ends the cycle, any
\* other tool is executed and its result added to the history (the counters
\* total_actions and successful_actions are followed in SpecCount, by
\* CountToolCall)
RunToolCall ==
    /\ pc = "for"
    /\ tool_calls # <<>>
    /\ LET tool_name == Head(tool_calls)
       IN  IF tool_name = "done_for_now"
           THEN /\ done' = TRUE
                /\ pc' = "cycle_end"
                /\ tool_calls' = <<>>
                /\ UNCHANGED <<iteration, conversation_history, turns>>
                /\ UNCHANGED <<trackerVars, exec, threadVars, latest_activity, agentVars>>
           ELSE /\ \E response \in LoopResponses(tool_name) :
                      Executed(tool_name, TRUE, response)
                /\ latest_activity' = logged_activity(tool_name, exec'.result)
                /\ conversation_history' = add_tool_result(conversation_history)
                /\ tool_calls' = Tail(tool_calls)
                /\ UNCHANGED <<pc, iteration, done, turns, agentVars>>

\* a tool call whose result cannot be handled: the tool has been executed
\* and its outcome logged, the handling of the result raises
ResultRaises ==
    /\ pc = "for"
    /\ tool_calls # <<>>
    /\ Head(tool_calls) # "done_for_now"
    /\ advances < MaxAdvances
    /\ \E response \in LoopResponses(Head(tool_calls)) :
          Executed(Head(tool_calls), TRUE, response)
    /\ latest_activity' = logged_activity(Head(tool_calls), exec'.result)
    /\ pc' = "except"
    /\ UNCHANGED <<iteration, done, tool_calls, conversation_history, turns>>
    /\ UNCHANGED agentVars

\* the tool calls of the response have been run
EndFor ==
    /\ pc = "for"
    /\ tool_calls = <<>>
    /\ pc' = "while"
    /\ UNCHANGED <<iteration, done, tool_calls, conversation_history, turns>>
    /\ UNCHANGED <<trackerVars, exec, threadVars, latest_activity, agentVars>>

\* the end of the cycle is logged; the outer while goes round
CycleEnd ==
    /\ pc = "cycle_end"
    /\ pc' = "cycle_start"
    /\ UNCHANGED <<iteration, done, tool_calls, conversation_history, turns>>
    /\ UNCHANGED <<trackerVars, exec, threadVars, latest_activity, agentVars>>

\* a handler that lets the loop end
ExceptReturns ==
    /\ pc = "except"
    /\ now' = now + error_sleep_seconds * SecTicks
    /\ advances' = advances + 1
    /\ pc' = "stopped"
    /\ latest_activity' = "error"
    /\ UNCHANGED <<iteration, done, tool_calls, conversation_history, turns>>
    /\ UNCHANGED <<state, file, last, writes, exec, threadVars, agentVars>>

\* except Exception: the error is logged and recorded as an error event,
\* the loop sleeps and goes round
Except ==
    /\ pc = "except"
    /\ now' = now + error_sleep_seconds * SecTicks
    /\ advances' = advances + 1
    /\ pc' = "cycle_start"
    /\ latest_activity' = "error"
    /\ UNCHANGED <<iteration, done, tool_calls, conversation_history, turns>>
    /\ UNCHANGED <<state, file, last, writes, exec, threadVars, agentVars>>

\* except KeyboardInterrupt, at any place of a cycle: running = False, break;
\* the loop returns and its local variables are gone
Interrupt ==
    /\ pc \in {"cycle_start", "while", "for", "cycle_end"}
    /\ pc' = "stopped"
    /\ iteration' = 0
    /\ done' = FALSE
    /\ tool_calls' = <<>>
    /\ running' = FALSE
    /\ UNCHANGED <<conversation_history, turns>>
    /\ UNCHANGED <<total_actions, successful_actions>>
    /\ UNCHANGED <<trackerVars, exec, threadVars, latest_activity>>

\* a KeyboardInterrupt that arrives inside the handler of except Exception,
\* while it logs the error or sleeps: no handler of the loop's try catches
\* it, it leaves autonomous_loop, and running is as it was
InterruptExcept ==
    /\ pc = "except"
    /\ pc' = "interrupted"
    /\ iteration' = 0
    /\ done' = FALSE
    /\ tool_calls' = <<>>
    /\ \E logged \in BOOLEAN :
          latest_activity' = IF logged THEN "error" ELSE latest_activity
    /\ UNCHANGED <<conversation_history, turns, agentVars>>
    /\ UNCHANGED <<trackerVars, exec, threadVars>>

NextLoop ==
    \/ StartLoop
    \/ CycleStart
    \/ ContextRaises
    \/ Decide
    \/ DecideRaises
    \/ ExitWhile
    \/ RunToolCall
    \/ ResultRaises
    \/ EndFor
    \/ CycleEnd
    \/ Except
    \/ Interrupt
    \/ InterruptExcept

\* the agent is constructed on a fresh installation: no rate-limit file yet
InitLoop ==
    /\ now = StartTime
    /\ advances = 0
    /\ writes = 0
    /\ LET tr == __init__([kind |-> "absent"], StartTime)
       IN  /\ state = tr.state
           /\ file = tr.file
           /\ last = [op |-> "__init__", at |-> StartTime, pre |-> tr.state,
                      retry |-> NoHint, remaining |-> NoHint, res |-> None]
    /\ exec = NoExec
    /\ LoopIdle

SpecLoop == InitLoop /\ [][NextLoop]_vars

\* the steps of the loop thread itself; it takes them one after the other as
\* long as the calls it makes return
LoopStep ==
    \/ CycleStart
    \/ Decide
    \/ ExitWhile
    \/ RunToolCall
    \/ EndFor
    \/ CycleEnd
    \/ Except

SpecLoopFair == SpecLoop /\ WF_vars(LoopStep)

\* at most max_iterations_per_cycle turns have been taken in the cycle, and
\* after that many the inner while can only end
C4_TurnsCapped ==
    /\ turns <= max_iterations_per_cycle
    /\ iteration <= max_iterations_per_cycle
    /\ pc \in {"while", "for"} => iteration = turns
    /\ (pc = "while" /\ iteration = max_iterations_per_cycle) =>
          /\ ~ENABLED Decide
          /\ ~ENABLED DecideRaises
          /\ ENABLED ExitWhile

\* a turn is taken only while fewer than the cap have been, and from the
\* test of the inner while after the last turn the loop goes to the end of
\* the cycle (or is interrupted)
C4_NoEleventhTurn ==
    /\ turns' = turns + 1 => turns < max_iterations_per_cycle
    /\ (pc = "while" /\ iteration = max_iterations_per_cycle) =>
          pc' \in {"cycle_end", "stopped"}

\* the cycle is over: its end is logged, or an error or an interrupt ended it
CycleOver == pc \in {"cycle_end", "except", "stopped"}

\* C4: every cycle ends after at most 10 turns of the decision engine: no
\* 11th decide_next_actions call is made in a cycle, whatever tool calls the
\* engine returns, and a cycle that has started reaches its end-of-cycle
\* step (unless an error or an interrupt ends it before).
C4_CycleTerminates ==
    /\ []C4_TurnsCapped
    /\ [][C4_NoEleventhTurn]_vars
    /\ (pc = "while" ~> CycleOver)

\* a cycle ended by the cap: ten turns, each answered with a tool call that
\* does not end the cycle
C4_Witness ==
    /\ pc = "cycle_end"
    /\ turns = max_iterations_per_cycle
    /\ iteration = max_iterations_per_cycle
    /\ ~done

\* C5: the first element of the conversation history is the system message
\* in every reachable state; eviction removes only non-system messages.
C5_SystemFirst ==
    /\ conversation_history # <<>>
    /\ Head(conversation_history) = "system"

\* C6: the conversation history never holds more than max_history messages,
\* whichever of add_to_history and add_tool_result appended the latest.
C6_HistoryCapped == Len(conversation_history) <= max_history

\* C17: an exception raised in a cycle, by build_context, by the decision
\* turn or by the handling of a tool's result, is caught: the handler
\* records an error event, sleeps error_sleep_seconds and the loop starts a
\* new cycle; the handler never ends the loop, which stops only on an
\* interrupt or when the identity check at its start fails.  (A handler cut
\* short by an interrupt is not a handler that ran.)
C17_ExceptionRecovers ==
    [][/\ pc = "except" /\ pc' # "interrupted" =>
            /\ pc' = "cycle_start"
            /\ latest_activity' = "error"
            /\ now' = now + error_sleep_seconds * SecTicks
       /\ pc' = "stopped" => pc # "except"]_vars

\* C33: whenever an interrupt ends the loop, in a decision turn, in the for
\* loop over the tool calls or in the handler of a caught exception, the
\* running flag is false when the loop is left.
C33_InterruptClearsRunning ==
    [][/\ pc' = "interrupted" => ~running'
       /\ pc' = "stopped" /\ pc \notin {"idle", "stopped"} => ~running']_vars

\* after an execute that ran into an exception the loop thread is still in
\* the for loop, at the tool call that follows (or in the handler of an
\* exception of its own handling of the result)
C19_LoopGoesOn ==
    [][exec' # exec /\ Raised(exec') =>
        /\ latest_activity' = "error"
        /\ \/ pc' = "for" /\ tool_calls' = Tail(tool_calls)
           \/ pc' = "except"]_vars

\* a new cycle is about to start after the decision turn raised: the
\* history ends with the user message of that turn, the error is logged
C17_Witness ==
    /\ pc = "cycle_start"
    /\ latest_activity = "error"
    /\ Len(conversation_history) >= 2
    /\ conversation_history[Len(conversation_history)] = "user"
    /\ now > StartTime

\* C21: the tool calls of a response are run in order up to the first
\* done_for_now: at done_for_now nothing is executed, the tool calls after
\* it are dropped and the cycle ends; a decision turn is taken only while
\* the cycle is not done, and a response without tool calls ends the cycle
\* without an execution.
C21_DoneEndsCycle ==
    [][/\ pc = "for" /\ tool_calls # <<>> /\ pc' # "stopped" =>
            IF Head(tool_calls) = "done_for_now"
            THEN /\ done' /\ pc' = "cycle_end" /\ tool_calls' = <<>>
                 /\ UNCHANGED <<exec, state, file, conversation_history>>
            ELSE /\ exec'.tool = Head(tool_calls)
                 /\ pc' = "for" => tool_calls' = Tail(tool_calls)
       /\ turns' = turns + 1 => pc = "while" /\ ~done
       /\ pc = "while" /\ pc' = "cycle_end" => UNCHANGED exec]_vars

\* a response with create_comment and then done_for_now: the comment was
\* executed in the first turn of the cycle, which is done after that turn
C21_Witness ==
    /\ pc = "cycle_end"
    /\ done
    /\ turns = 1
    /\ exec.tool = "create_comment"
    /\ conversation_history = <<"system", "user", "assistant", "tool">>

-----------------------------------------------------------------------------
(* SpecCrash: the tracker's file under a crash of the process.  _save      *)
(* opens the file for writing, which empties it, and then dumps the state  *)
(* into it; the process can die before, between and after the two.         *)

\* open(self.filepath, 'w'): the file is emptied; an empty or half-written
\* file does not parse
open_for_write(tr) == [tr EXCEPT !.file = [kind |-> "corrupt"]]

\* the operations that change the state and save it
Mutations ==
    {"record_comment", "record_post", "apply_comment_rate_limit"}

Mutated(op, tr, t) ==
    CASE op = "record_comment" -> record_comment(tr, t)
      [] op = "record_post" -> record_post(tr, t)
      [] op = "apply_comment_rate_limit" ->
            apply_comment_rate_limit(tr, t,
                Num(comment_cooldown_seconds * TicksPerSec), NoHint)

\* an operation has changed the state in memory and opened the file
BeginSave ==
    /\ file.kind = "json"
    /\ Write
    /\ \E op \in Mutations :
          LET tr == open_for_write(Mutated(op, Tracker, now))
          IN  /\ state' = tr.state
              /\ file' = tr.file
              /\ last' = Call(op, NoHint, NoHint, None)
    /\ UNCHANGED <<now, advances, exec, loopVars, threadVars, latest_activity>>

\* json.dump and the close of the file: the operation is complete
CompleteSave ==
    /\ file.kind = "corrupt"
    /\ file' = _save(Tracker).file
    /\ UNCHANGED <<now, state, last, advances, writes, exec, loopVars, threadVars, latest_activity>>

\* the process dies and is started again: the memory is gone, the tracker
\* is constructed from the file as the crash left it.  The record keeps the
\* state before the operation in flight (the state itself when none was)
\* and the state in memory at the crash.
Crash ==
    /\ last.op # "crash"
    /\ LET tr == __init__(file, now)
       IN  /\ state' = tr.state
           /\ file' = tr.file
           /\ last' = [op |-> "crash", at |-> now,
                       pre |-> IF file.kind = "corrupt" THEN last.pre ELSE state,
                       retry |-> NoHint, remaining |-> NoHint,
                       res |-> Some(state)]
    /\ UNCHANGED <<now, advances, writes, exec, loopVars, threadVars, latest_activity>>

NextCrash ==
    \/ Pass
    \/ BeginSave
    \/ CompleteSave
    \/ Crash

SpecCrash == Init /\ [][NextCrash]_vars

\* the state a tracker constructed at time t loads from a file holding st
Reloaded(st, t) == __init__([kind |-> "json", data |-> st], t).state

\* C11: after a crash at any point and a restart, the state loaded differs
\* from the state before the crash by at most the bookkeeping of the one
\* operation in flight: it is the state the completed operations left, or
\* that state with the operation in flight applied; what earlier operations
\* persisted is not lost.
C11_CrashKeepsState ==
    last.op = "crash" =>
        \/ state = Reloaded(last.pre, last.at)
        \/ state = Reloaded(last.res[1], last.at)

-----------------------------------------------------------------------------
(* ActivityLogger: the ring buffer of recent events and the subscribers'   *)
(* queues.  An event is its type and its timestamp; the timestamp is the   *)
(* number of the event, later events carrying larger ones.                 *)

\* deque(maxlen=100)
activities_maxlen == 100

\* queue.Queue(maxsize=50)
subscriber_maxsize == 50

MaxEvents == 52
MaxSubscribers == 2
MaxGets == 2

\* deque.append on a deque with a maxlen: the oldest event leaves when full
deque_append(acts, activity) ==
    LET grown == Append(acts, activity)
    IN  IF Len(grown) > activities_maxlen THEN Tail(grown) ELSE grown

\* a queue that makes room for the event by giving up its oldest one
put_nowait_evicting(q, activity) ==
    IF Len(q) < subscriber_maxsize
    THEN Append(q, activity)
    ELSE Append(Tail(q), activity)

\* Queue.put_nowait, with the queue.Full it raises swallowed by the caller:
\* a full queue is left as it is
put_nowait(q, activity) ==
    IF Len(q) < subscriber_maxsize THEN Append(q, activity) ELSE q

\* the number of events logged so far
Logged(acts) == IF acts = <<>> THEN 0 ELSE acts[Len(acts)].timestamp

\* the event log_activity builds
Activity(acts, activity_type) ==
    [timestamp |-> Logged(acts) + 1, type |-> activity_type]

log_activity(acts, subs, activity_type) ==
    LET activity == Activity(acts, activity_type)
    IN  [activities |-> deque_append(acts, activity),
         subscribers |->
            [i \in DOMAIN subs |->
                [subs[i] EXCEPT !.queue = put_nowait(subs[i].queue, activity)]]]

\* a subscriber is the client it serves and its queue
subscribe(subs, client) == Append(subs, [client |-> client, queue |-> <<>>])

unsubscribe(subs, client) == SelectSeq(subs, LAMBDA s : s.client # client)

Subscribed(client) ==
    \E i \in DOMAIN subscribers : subscribers[i].client = client

Clients == 1..MaxSubscribers

\* the steps of the activity log leave the rest of the program alone
LogOnly ==
    UNCHANGED <<trackerVars, exec, loopVars, suggestions, contexts, dash,
                agent, serial, latest_activity, request>>

\* the loop thread or a request handler logs an event
LogActivity ==
    /\ Logged(activities) < MaxEvents
    /\ \E r \in {log_activity(activities, subscribers, "thought")} :
          /\ activities' = r.activities
          /\ subscribers' = r.subscribers
    /\ UNCHANGED gets
    /\ LogOnly

\* GET /api/activity/stream: the handler subscribes
Subscribe(client) ==
    /\ ~Subscribed(client)
    /\ subscribers' = subscribe(subscribers, client)
    /\ UNCHANGED <<activities, gets>>
    /\ LogOnly

\* sub_queue.get(timeout=30) in the stream handler returns an event
StreamGet(client) ==
    /\ gets < MaxGets
    /\ \E i \in DOMAIN subscribers :
          /\ subscribers[i].client = client
          /\ subscribers[i].queue # <<>>
          /\ subscribers' =
                [subscribers EXCEPT ![i].queue = Tail(subscribers[i].queue)]
    /\ gets' = gets + 1
    /\ UNCHANGED activities
    /\ LogOnly

\* the client goes away: the handler's finally clause unsubscribes
Unsubscribe(client) ==
    /\ Subscribed(client)
    /\ subscribers' = unsubscribe(subscribers, client)
    /\ UNCHANGED <<activities, gets>>
    /\ LogOnly

NextLog ==
    \/ LogActivity
    \/ \E client \in Clients : Subscribe(client)
    \/ \E client \in Clients : StreamGet(client)
    \/ \E client \in Clients : Unsubscribe(client)

SpecLog == InitLoop /\ [][NextLog]_vars

\* C16: log_activity does not wait for a subscriber: the event goes to the
\* end of the ring buffer; a subscriber whose queue holds its 50 events
\* keeps exactly those, every other subscriber gets the event at the end
\* of its queue.
C16_FullQueueDrops ==
    [][activities' # activities =>
        LET activity == activities'[Len(activities')]
        IN  /\ activity = Activity(activities, "thought")
            /\ DOMAIN subscribers' = DOMAIN subscribers
            /\ \A i \in DOMAIN subscribers :
                  /\ subscribers'[i].client = subscribers[i].client
                  /\ subscribers'[i].queue =
                        IF Len(subscribers[i].queue) = subscriber_maxsize
                        THEN subscribers[i].queue
                        ELSE Append(subscribers[i].queue, activity)]_vars

\* an event was dropped for a subscriber whose queue is full, and delivered
\* to another one
C16_Witness ==
    /\ activities # <<>>
    /\ \E i, j \in DOMAIN subscribers :
          /\ Len(subscribers[i].queue) = subscriber_maxsize
          /\ subscribers[i].queue[subscriber_maxsize] #
                activities[Len(activities)]
          /\ subscribers[j].queue # <<>>
          /\ subscribers[j].queue[Len(subscribers[j].queue)] =
                activities[Len(activities)]

-----------------------------------------------------------------------------
(* SpecSuggest: suggestions.json between the dashboard thread, which adds  *)
(* suggestions, and the loop thread, whose build_context reads the pending *)
(* ones and removes them.  _read_suggestions and _write_suggestions each   *)
(* hold file_lock; nothing is held from a read to the write that follows.  *)

MaxSuggestions == 4

\* get_pending on the list as read
get_pending(list) == SelectSeq(list, LAMBDA s : s.status = "pending")

\* what mark_all_pending_as_seen writes back: the suggestions not pending
remaining_suggestions(list) == SelectSeq(list, LAMBDA s : s.status # "pending")

Ids(list) == {list[i].id : i \in DOMAIN list}

\* the steps on the suggestions leave the rest of the program alone
SuggestOnly ==
    UNCHANGED <<trackerVars, exec, loopVars, serial, subscribers,
                latest_activity, gets, request>>

\* POST /api/suggestions, add_suggestion: the list is read
AddRead ==
    /\ dash.pc = "idle"
    /\ dash.added < MaxSuggestions
    /\ dash' = [pc |-> "add_write", added |-> dash.added, read |-> suggestions]
    /\ UNCHANGED <<suggestions, contexts, agent, activities>>
    /\ SuggestOnly

\* add_suggestion appends the new suggestion to the list it read and
\* writes the list; the handler logs the event.  The id, taken from the
\* clock in milliseconds, is the number of the request.
AddWrite ==
    /\ dash.pc = "add_write"
    /\ suggestions' =
          Append(dash.read, [id |-> dash.added + 1, status |-> "pending"])
    /\ dash' = [pc |-> "idle", added |-> dash.added + 1]
    /\ activities' =
          log_activity(activities, subscribers, "suggestion_received").activities
    /\ UNCHANGED <<contexts, agent>>
    /\ SuggestOnly

\* build_context: get_pending; the pending suggestions go into the context
\* and mark_all_pending_as_seen is entered
GetPending ==
    /\ agent.pc = "idle"
    /\ LET pending_suggestions == get_pending(suggestions)
       IN  IF pending_suggestions # <<>>
           THEN /\ contexts' = Append(contexts, Ids(pending_suggestions))
                /\ agent' = [pc |-> "mark_read"]
           ELSE UNCHANGED <<contexts, agent>>
    /\ UNCHANGED <<suggestions, dash, activities>>
    /\ SuggestOnly

\* mark_all_pending_as_seen: the list is read
MarkRead ==
    /\ agent.pc = "mark_read"
    /\ agent' = [pc |-> "mark_write", read |-> suggestions]
    /\ UNCHANGED <<suggestions, contexts, dash, activities>>
    /\ SuggestOnly

\* mark_all_pending_as_seen: the list read, without its pending entries,
\* is written
MarkWrite ==
    /\ agent.pc = "mark_write"
    /\ suggestions' = remaining_suggestions(agent.read)
    /\ agent' = [pc |-> "idle"]
    /\ UNCHANGED <<contexts, dash, activities>>
    /\ SuggestOnly

NextSuggest ==
    \/ AddRead
    \/ AddWrite
    \/ GetPending
    \/ MarkRead
    \/ MarkWrite

SpecSuggest == InitLoop /\ [][NextSuggest]_vars

Pending(id) == id \in Ids(get_pending(suggestions))

Shown(id) == \E k \in DOMAIN contexts : id \in contexts[k]

\* C12: a suggestion add_suggestion has added is pending until a
\* build_context has put it in its context: none leaves the pending ones
\* without having been shown.
C12_NoneLost ==
    \A id \in 1..dash.added : Pending(id) \/ Shown(id)

\* C13: a suggestion a build_context has put in its context is in no later
\* context, and is not pending once that build_context is over.
C13_ShownOnce ==
    \A id \in 1..dash.added :
        /\ Cardinality({k \in DOMAIN contexts : id \in contexts[k]}) <= 1
        /\ Shown(id) /\ agent.pc = "idle" => ~Pending(id)

-----------------------------------------------------------------------------
(* SpecRace: the tracker between the loop thread, which calls can_comment  *)
(* and record_comment, and the dashboard thread, whose GET /api/status     *)
(* calls get_status on the same object.  The tracker takes no lock, so the *)
(* statements of the two calls interleave.  A thread's frame holds the     *)
(* call it is in and the statement it is at.                               *)

LoopCalls == {"can_comment", "record_comment"}

\* where a call goes on after its _check_and_reset_daily: record_comment
\* to its increment; get_status into can_comment, which checks again;
\* can_comment to its reads
AfterCheck(op) ==
    CASE op = "record_comment" -> [op |-> op, pc |-> "increment"]
      [] op = "get_status" -> [op |-> "can_comment", pc |-> "check"]
      [] op = "can_comment" -> [op |-> op, pc |-> "read"]

\* the statement at position pc of call op: the tracker after it and the
\* place the thread is at next
Statement(op, at, tr, t) ==
    CASE at = "check" ->
            [tr |-> tr,
             next |-> IF tr.state.reset_date # today(t)
                      THEN [op |-> op, pc |-> "set_date"]
                      ELSE AfterCheck(op)]
      [] at = "set_date" ->
            [tr |-> [tr EXCEPT !.state.reset_date = today(t)],
             next |-> [op |-> op, pc |-> "zero"]]
      [] at = "zero" ->
            [tr |-> [tr EXCEPT !.state.comments_today = 0],
             next |-> [op |-> op, pc |-> "reset_save"]]
      [] at = "reset_save" ->
            [tr |-> _save(tr), next |-> AfterCheck(op)]
      [] at = "increment" ->
            [tr |-> [tr EXCEPT !.state.comments_today = @ + 1],
             next |-> [op |-> op, pc |-> "stamp"]]
      [] at = "stamp" ->
            [tr |-> [tr EXCEPT !.state.last_comment_time = t],
             next |-> [op |-> op, pc |-> "unblock"]]
      [] at = "unblock" ->
            [tr |-> [tr EXCEPT !.state.comment_blocked_until = 0],
             next |-> [op |-> op, pc |-> "save"]]
      [] at = "save" ->
            [tr |-> _save(tr), next |-> [pc |-> "idle"]]
      [] at = "read" ->
            [tr |-> tr, next |-> [pc |-> "idle"]]

\* the record of a statement: the thread that ran it, the state and the
\* file it found
Ran_by(thread, op) ==
    [op |-> op, at |-> now, pre |-> state, file |-> file, thread |-> thread,
     retry |-> NoHint, remaining |-> NoHint, res |-> None]

\* a call begins; the first of a round notes the state it starts from
Begun(op) ==
    serial' = IF serial.calls = {}
              THEN [calls |-> {op}, start |-> state]
              ELSE [serial EXCEPT !.calls = @ \cup {op}]

RaceOnly ==
    UNCHANGED <<exec, loopVars, suggestions, contexts, activities,
                subscribers, latest_activity, gets, request>>

\* the loop thread calls can_comment or record_comment
LoopBegin(op) ==
    /\ agent.pc = "idle"
    /\ serial.calls \cap LoopCalls = {}
    /\ IF op = "record_comment" THEN Write ELSE Read
    /\ agent' = [pc |-> "check", op |-> op]
    /\ Begun(op)
    /\ UNCHANGED <<now, state, file, last, advances, dash>>
    /\ RaceOnly

\* the loop thread runs the statement it is at
LoopStatement ==
    /\ agent.pc # "idle"
    /\ \E r \in {Statement(agent.op, agent.pc, Tracker, now)} :
          /\ state' = r.tr.state
          /\ file' = r.tr.file
          /\ agent' = r.next
    /\ last' = Ran_by("loop", agent.op)
    /\ UNCHANGED <<now, advances, writes, dash, serial>>
    /\ RaceOnly

\* GET /api/status: the handler calls rate_limiter.get_status()
StatusBegin ==
    /\ dash.pc = "idle"
    /\ "get_status" \notin serial.calls
    /\ dash' = [pc |-> "check", op |-> "get_status", added |-> dash.added]
    /\ Begun("get_status")
    /\ UNCHANGED <<now, state, file, last, advances, writes, agent>>
    /\ RaceOnly

\* the dashboard thread runs the statement it is at
StatusStatement ==
    /\ dash.pc # "idle"
    /\ \E r \in {Statement(dash.op, dash.pc, Tracker, now)} :
          /\ state' = r.tr.state
          /\ file' = r.tr.file
          /\ dash' = IF r.next.pc = "idle"
                     THEN [pc |-> "idle", added |-> dash.added]
                     ELSE [pc |-> r.next.pc, op |-> r.next.op,
                           added |-> dash.added]
    /\ last' = Ran_by("dashboard", dash.op)
    /\ UNCHANGED <<now, advances, writes, agent, serial>>
    /\ RaceOnly

\* both calls have returned; time passes before the next ones
Settle ==
    /\ agent.pc = "idle" /\ dash.pc = "idle"
    /\ serial.calls # {}
    /\ advances < MaxAdvances
    /\ \E d \in ClockSteps : now' = now + d
    /\ advances' = advances + 1
    /\ serial' = [calls |-> {}]
    /\ last' = NoCall(now')
    /\ UNCHANGED <<state, file, writes, agent, dash>>
    /\ RaceOnly

NextRace ==
    \/ \E op \in LoopCalls : LoopBegin(op)
    \/ LoopStatement
    \/ StatusBegin
    \/ StatusStatement
    \/ Settle

SpecRace == InitLoop /\ [][NextRace]_vars

\* C14: no statement the dashboard thread runs changes a field of the
\* tracker's state or writes the rate-limit file.
C14_DashboardReadsOnly ==
    last.op # "none" /\ last.op # "__init__" =>
        (last.thread = "dashboard" => state = last.pre /\ file = last.file)

\* a call run alone, from start to end
Alone(op, tr, t) ==
    CASE op = "record_comment" -> record_comment(tr, t)
      [] op = "can_comment" -> can_comment(tr, t).tr
      [] op = "get_status" -> get_status(tr, t).tr

\* the states the calls leave when run one after the other, in any order
SerialOutcomes(start, calls, t) ==
    LET tr == [state |-> start, file |-> [kind |-> "json", data |-> start]]
    IN  IF Cardinality(calls) = 1
        THEN {Alone(a, tr, t).state : a \in calls}
        ELSE {Alone(p[2], Alone(p[1], tr, t), t).state :
                p \in {q \in calls \X calls : q[1] # q[2]}}

\* C15: when the loop thread's call and the dashboard's get_status have
\* both returned, comments_today and reset_date are those some order of
\* the calls, run one after the other, leaves: no increment is lost, no
\* reset is lost or late.
C15_Serializable ==
    agent.pc = "idle" /\ dash.pc = "idle" /\ serial.calls # {} =>
        \E st \in SerialOutcomes(serial.start, serial.calls, now) :
            /\ state.comments_today = st.comments_today
            /\ state.reset_date = st.reset_date

\* C28: the identity check is made once, before the loop. When it does not
\* report status claimed, or the status request fails, autonomous_loop
\* returns: the conversation is not reset, no decision turn is taken, no
\* tool is executed, the check is not made again, and once the loop has
\* returned no cycle starts.
C28_FailedCheckHalts ==
    [][/\ pc = "idle" =>
            /\ pc' \in {"cycle_start", "stopped"}
            /\ UNCHANGED <<conversation_history, turns, exec, state, file,
                           latest_activity, now>>
       /\ pc' = "idle" => pc = "idle"
       /\ pc = "stopped" => pc' = "stopped"
       /\ pc' = "cycle_start" => pc \in {"idle", "cycle_end", "except"}]_vars

\* the loop has returned with nothing done: the conversation is as it was
\* constructed, no turn was taken, nothing was executed or logged
C28_Witness ==
    /\ pc = "stopped"
    /\ conversation_history = <<"system">>
    /\ turns = 0
    /\ exec = NoExec
    /\ latest_activity = "none"
    /\ now = StartTime

\* C29: between the end of a cycle and the start of the next the loop
\* sleeps: the clock has moved on when the loop comes from the cycle's
\* closing log back to the test of while self.running.
C29_SleepsBetweenCycles ==
    [][pc = "cycle_end" /\ pc' = "cycle_start" => now' > now]_vars

-----------------------------------------------------------------------------
(* SpecClient: MoltbookClient._request.  A string is the sequence of its   *)
(* parts: a scheme with its colon, a slash, an at sign, a host name, a     *)
(* path segment.  The client keeps nothing between calls, so a behaviour   *)
(* is one call: the endpoint is passed, the request goes out, the server   *)
(* answers, the call returns.                                              *)

\* the longest endpoint passed
MaxEndpoint == 4

EndpointParts == {"http:", "https:", "HTTPS:", "/", "@", "evil.com", "posts"}

Endpoints == UNION {[1..n -> EndpointParts] : n \in 0..MaxEndpoint}

BASE_URL == <<"https:", "/", "/", "www.moltbook.com", "/", "api", "/", "v1">>

\* self.headers
headers == {"Authorization", "Content-Type"}

\* str.startswith
startswith(s, prefix) ==
    Len(s) >= Len(prefix) /\ SubSeq(s, 1, Len(prefix)) = prefix

\* str.lstrip("/")
RECURSIVE lstrip(_)
lstrip(s) == IF s # <<>> /\ Head(s) = "/" THEN lstrip(Tail(s)) ELSE s

ValueError == [raises |-> TRUE, url |-> <<>>]

_build_url(endpoint) ==
    IF \/ startswith(endpoint, <<"http:", "/", "/">>)
       \/ startswith(endpoint, <<"https:", "/", "/">>)
    THEN ValueError
    ELSE [raises |-> FALSE, url |-> BASE_URL \o <<"/">> \o lstrip(endpoint)]

\* the part of s before its first slash
RECURSIVE authority(_)
authority(s) ==
    IF s = <<>> \/ Head(s) = "/" THEN <<>> ELSE <<Head(s)>> \o authority(Tail(s))

\* urllib.parse.urlparse: the scheme in lower case, and the network
\* location, which follows "//" and ends at the next slash
urlparse(url) ==
    LET has_scheme == url # <<>> /\ Head(url) \in {"http:", "https:", "HTTPS:"}
        rest == IF has_scheme THEN Tail(url) ELSE url
    IN  [scheme |-> IF ~has_scheme THEN ""
                    ELSE IF Head(url) = "http:" THEN "http" ELSE "https",
         netloc |-> IF startswith(rest, <<"/", "/">>)
                    THEN authority(Tail(Tail(rest)))
                    ELSE <<>>]

\* _assert_www_host raises
refuses_host(url) ==
    LET parsed == urlparse(url)
    IN  parsed.scheme # "https" \/ parsed.netloc # <<"www.moltbook.com">>

\* the host a request to a network location goes to: what follows the
\* last at sign
RECURSIVE hostname(_)
hostname(netloc) ==
    IF \E i \in DOMAIN netloc : netloc[i] = "@"
    THEN hostname(Tail(netloc))
    ELSE netloc

\* the body of a response: not a JSON object, a JSON object without a
\* "success" key, or a JSON object with one
Bodies == {"other", "object", "object_success", "object_failure"}

\* what requests.request comes back with: a response with its status, its
\* Location header and its body, or a RequestException
ServerResponse(status_code, location, data) ==
    [raises |-> FALSE, status_code |-> status_code, location |-> location,
     data |-> data]

RequestException ==
    [raises |-> TRUE, status_code |-> 0, location |-> None, data |-> "other"]

\* data.setdefault("success", ...) on a JSON object, the status otherwise
success_of(response) ==
    CASE response.data = "object_success" -> TRUE
      [] response.data = "object_failure" -> FALSE
      [] OTHER -> 200 <= response.status_code /\ response.status_code < 300

ElsewhereUrl == <<"https:", "/", "/", "evil.com", "/", "posts">>

ServerResponses ==
    {ServerResponse(s, None, d) : s \in {200, 404}, d \in Bodies}
        \cup {ServerResponse(204, None, "other")}
        \cup {ServerResponse(s, l, d) :
                s \in {301, 302}, l \in {None, Some(ElsewhereUrl)},
                d \in {"other", "object_success"}}
        \cup {RequestException}

\* a request as it goes out
Sent(url) == [url |-> url, headers |-> headers, allow_redirects |-> FALSE]

\* the dictionary _request returns
Returned(success, status_code, location) ==
    [raises |-> FALSE, success |-> success, status_code |-> status_code,
     location |-> location]

\* a _request that lets the library follow a redirect
_request_follows(endpoint, response) ==
    LET built == _build_url(endpoint)
    IN  IF built.raises \/ refuses_host(built.url)
        THEN [sent |-> <<>>,
              result |-> [raises |-> TRUE, success |-> FALSE,
                          status_code |-> None, location |-> None]]
        ELSE IF response.raises
        THEN [sent |-> <<Sent(built.url)>>,
              result |-> Returned(FALSE, None, None)]
        ELSE IF 300 <= response.status_code /\ response.status_code < 400
                /\ response.location # None
        THEN [sent |-> <<Sent(built.url), Sent(response.location[1])>>,
              result |-> Returned(TRUE, Some(200), None)]
        ELSE IF response.status_code = 204
        THEN [sent |-> <<Sent(built.url)>>,
              result |-> Returned(TRUE, Some(204), None)]
        ELSE [sent |-> <<Sent(built.url)>>,
              result |-> Returned(success_of(response),
                                  Some(response.status_code), None)]

\* _request(method, endpoint) when the server answers with response:
\* [sent: the requests that went out, result: what the call came to]
_request(endpoint, response) ==
    LET built == _build_url(endpoint)
    IN  IF built.raises \/ refuses_host(built.url)
        THEN [sent |-> <<>>,
              result |-> [raises |-> TRUE, success |-> FALSE,
                          status_code |-> None, location |-> None]]
        ELSE IF response.raises
        THEN [sent |-> <<Sent(built.url)>>,
              result |-> Returned(FALSE, None, None)]
        ELSE IF 300 <= response.status_code /\ response.status_code < 400
        THEN [sent |-> <<Sent(built.url)>>,
              result |-> Returned(FALSE, Some(response.status_code),
                                  response.location)]
        ELSE IF response.status_code = 204
        THEN [sent |-> <<Sent(built.url)>>,
              result |-> Returned(TRUE, Some(204), None)]
        ELSE [sent |-> <<Sent(built.url)>>,
              result |-> Returned(success_of(response),
                                  Some(response.status_code), None)]

\* the steps of the client leave the rest of the program alone
ClientOnly ==
    UNCHANGED <<trackerVars, exec, loopVars, suggestions, contexts, dash,
                agent, serial, activities, subscribers, gets,
                latest_activity>>

\* a method of the client calls _request with an endpoint
ClientCall ==
    /\ request.pc = "idle"
    /\ \E endpoint \in Endpoints :
          request' = [pc |-> "called", endpoint |-> endpoint]
    /\ ClientOnly

\* _request runs: the server answers the request if one goes out
ClientRequest ==
    /\ request.pc = "called"
    /\ \E response \in ServerResponses :
       \E r \in {_request(request.endpoint, response)} :
          request' = [pc |-> "returned", endpoint |-> request.endpoint,
                      response |-> IF r.sent = <<>> THEN None ELSE Some(response),
                      sent |-> r.sent, result |-> r.result]
    /\ ClientOnly

NextClient ==
    \/ ClientCall
    \/ ClientRequest

SpecClient == InitLoop /\ [][NextClient]_vars

\* C30: every request that goes out with the Authorization header goes to
\* scheme https and host www.moltbook.com, whatever endpoint string was
\* passed; when the answer is a 3xx the call returns success false and only
\* the one request has gone out, none to the Location of the answer.
C30_TokenOnlyToWww ==
    request.pc = "returned" =>
        /\ \A i \in DOMAIN request.sent :
              "Authorization" \in request.sent[i].headers =>
                  LET parsed == urlparse(request.sent[i].url)
                  IN  /\ parsed.scheme = "https"
                      /\ hostname(parsed.netloc) = <<"www.moltbook.com">>
        /\ \A i \in DOMAIN request.sent : ~request.sent[i].allow_redirects
        /\ /\ request.response # None
           /\ ~request.response[1].raises
           /\ request.response[1].status_code \in 300..399
           => /\ ~request.result.raises
              /\ ~request.result.success
              /\ Len(request.sent) = 1

\* an endpoint that begins with "//evil.com" went out to www.moltbook.com,
\* the answer was a redirect to another host, and the call returned a
\* failure that names the Location
C30_Witness ==
    /\ request.pc = "returned"
    /\ startswith(request.endpoint, <<"/", "/", "evil.com">>)
    /\ Len(request.sent) = 1
    /\ request.response # None
    /\ request.response[1].status_code = 302
    /\ request.response[1].location = Some(ElsewhereUrl)
    /\ ~request.result.success
    /\ request.result.location = Some(ElsewhereUrl)

-----------------------------------------------------------------------------
(* SpecSchema: execute called with arguments, for get_feed and read_post.  *)
(* The arguments are a mapping from the names the language model may send  *)
(* to the value sent, None where the name is not sent.                     *)

ArgumentNames == {"sort", "limit", "post_id", "mood"}

\* the arguments sent
Given(arguments) == {p \in ArgumentNames : arguments[p] # None}

\* the arguments the language model sends with a tool call: a sort of the
\* enumeration or outside it, a limit within the bounds, at them and
\* outside them, a post id, a parameter no tool declares
ArgumentSets ==
    [sort : {None, Some("hot"), Some("rising"), Some("best")},
     limit : {None, Some(0), Some(1), Some(50), Some(51)},
     post_id : {None, Some("p1")},
     mood : {None, Some("angry")}]

\* MOLTBOOK_TOOLS: the declared parameters of a tool, the required ones,
\* the enumerated choices of sort and the bounds of limit
properties(tool_name) ==
    IF tool_name = "get_feed" THEN {"sort", "limit"} ELSE {"post_id"}
required(tool_name) ==
    IF tool_name = "get_feed" THEN {"sort", "limit"} ELSE {"post_id"}
sort_enum == {"hot", "new", "top", "rising"}
limit_minimum == 1
limit_maximum == 50

\* the arguments fit the declared schema of the tool
Conforms(tool_name, arguments) ==
    /\ Given(arguments) \subseteq properties(tool_name)
    /\ required(tool_name) \subseteq Given(arguments)
    /\ arguments.sort # None => arguments.sort[1] \in sort_enum
    /\ arguments.limit # None =>
          /\ limit_minimum <= arguments.limit[1]
          /\ arguments.limit[1] <= limit_maximum

\* def _get_feed(self, sort="hot", limit=20), def _read_post(self, post_id):
\* the parameters of the handler and those of them that have a default
parameters(tool_name) ==
    IF tool_name = "get_feed" THEN {"sort", "limit"} ELSE {"post_id"}
defaults ==
    [sort |-> Some("hot"), limit |-> Some(20), post_id |-> None, mood |-> None]

\* self.tool_map[tool_name](**arguments) binds: no name the handler lacks,
\* every parameter without a default given
binds(tool_name, arguments) ==
    /\ Given(arguments) \subseteq parameters(tool_name)
    /\ \A p \in parameters(tool_name) :
          arguments[p] # None \/ defaults[p] # None

\* the values the handler runs with
bound(tool_name, arguments) ==
    [p \in ArgumentNames |->
        IF p \notin parameters(tool_name) THEN None
        ELSE IF arguments[p] # None THEN arguments[p]
        ELSE defaults[p]]

SchemaTools == {"get_feed", "read_post"}

\* execute of get_feed or read_post: [forwarded: the values handed to the
\* client, None when the client is not called, result]
execute_arguments(tool_name, arguments, response) ==
    IF ~binds(tool_name, arguments)
    THEN [forwarded |-> None, result |-> caught("TypeError")]
    ELSE IF response.raises
    THEN [forwarded |-> Some(bound(tool_name, arguments)),
          result |-> caught("Exception")]
    ELSE [forwarded |-> Some(bound(tool_name, arguments)),
          result |-> Passed(response)]

\* execute(tool_name, arguments) runs and the platform answers
ExecuteArguments ==
    /\ exec = NoExec
    /\ \E tool_name \in SchemaTools, arguments \in ArgumentSets,
          response \in {Created, Refused, Raises} :
       \E r \in {execute_arguments(tool_name, arguments, response)} :
          exec' = [tool |-> tool_name, arguments |-> arguments,
                   forwarded |-> r.forwarded,
                   response |-> IF r.forwarded = None THEN None
                                ELSE Some(response),
                   result |-> r.result]
    /\ UNCHANGED <<trackerVars, loopVars, threadVars, latest_activity>>

NextSchema == ExecuteArguments

SpecSchema == InitLoop /\ [][NextSchema]_vars

\* C31: a tool call whose arguments do not fit the declared schema of the
\* tool (a required parameter missing, a parameter that is not declared, a
\* sort outside the enumeration, a limit outside 1..50) is not handed to the
\* client, and execute returns success false for it.
C31_SchemaEnforced ==
    exec # NoExec /\ ~Conforms(exec.tool, exec.arguments) =>
        /\ exec.forwarded = None
        /\ ~exec.result.success

-----------------------------------------------------------------------------
(* SpecText: the places a generated text is submitted from.  A text is the *)
(* sequence of its characters; the empty sequence stands for "" and for    *)
(* None, which the tests "not text" and "if text" do not tell apart.       *)

\* the longest generated text
MaxText == 4

Texts == UNION {[1..n -> {" ", "a"}] : n \in 0..MaxText}

RECURSIVE strip_left(_)
strip_left(s) == IF s # <<>> /\ Head(s) = " " THEN strip_left(Tail(s)) ELSE s

RECURSIVE strip_right(_)
strip_right(s) ==
    IF s # <<>> /\ s[Len(s)] = " "
    THEN strip_right(SubSeq(s, 1, Len(s) - 1))
    ELSE s

\* str.strip
strip(s) == strip_right(strip_left(s))

\* not text or len(text.strip()) < 3
too_short(text) == text = <<>> \/ Len(strip(text)) < 3

\* what a write path did with a text: whether the client was called with
\* it, and whether the write succeeded
Wrote(path, title, text, submitted, success) ==
    [path |-> path, title |-> title, text |-> text,
     submitted |-> submitted, success |-> success]

\* PeterGriffinAgent._comment_on_single_post, and the comment on a search
\* result in _search_and_engage
_comment_on_single_post(path, comment_text, response) ==
    IF too_short(comment_text)
    THEN Wrote(path, <<>>, comment_text, FALSE, FALSE)
    ELSE Wrote(path, <<>>, comment_text, TRUE, response.success)

\* PeterGriffinAgent._create_random_post
_create_random_post(title, content, response) ==
    IF too_short(title) \/ too_short(content)
    THEN Wrote("agent.post", title, content, FALSE, FALSE)
    ELSE Wrote("agent.post", title, content, TRUE, response.success)

\* the scripted agent generates a comment, for a post of the feed or for a
\* search result
AgentComments ==
    /\ exec = NoExec
    /\ \E path \in {"agent.comment", "agent.search_comment"},
          comment_text \in Texts, response \in {Created, Refused} :
          exec' = _comment_on_single_post(path, comment_text, response)
    /\ UNCHANGED <<trackerVars, loopVars, threadVars, latest_activity>>

\* the scripted agent generates a post
AgentPosts ==
    /\ exec = NoExec
    /\ \E title \in {<<>>, <<"a", "a", "a">>}, content \in Texts,
          response \in {Created, Refused} :
          exec' = _create_random_post(title, content, response)
    /\ UNCHANGED <<trackerVars, loopVars, threadVars, latest_activity>>

\* the language model's create_comment or create_post is executed with the
\* content it wrote
ToolWrites ==
    /\ exec = NoExec
    /\ \E tool_name \in {"create_comment", "create_post"}, content \in Texts,
          response \in {Created, Refused} :
       \E r \in {execute(Tracker, now, tool_name, TRUE, response)} :
          /\ state' = r.tr.state
          /\ file' = r.tr.file
          /\ last' = IF r.call = None THEN last ELSE r.call
          /\ writes' = writes + (IF Made(r.calls, WriteCalls) THEN 1 ELSE 0)
          /\ exec' = Wrote(tool_name, <<"a", "a", "a">>, content,
                           Made(r.calls, ClientCalls), r.result.success)
    /\ UNCHANGED <<now, advances, loopVars, threadVars, latest_activity>>

NextText ==
    \/ AgentComments
    \/ AgentPosts
    \/ ToolWrites

SpecText == InitLoop /\ [][NextText]_vars

\* C32: a generated text that is empty or has fewer than 3 characters after
\* trimming is not submitted to the platform, on any write path: the
\* scripted agent's comment, post and search comment, and the executor's
\* create_comment and create_post.
C32_ShortTextRejected ==
    exec # NoExec /\ too_short(exec.text) => ~exec.submitted

-----------------------------------------------------------------------------
(* SpecCaught: the except clauses of the tracker, the executor and the     *)
(* loop.  exec holds the latest of them that was passed: the function, was  *)
(* an error caught there, and the log entries its except clause wrote.     *)

\* the calls followed in one behaviour
MaxCaught == 2

\* except: self._create_initial_state()
load_entries == <<>>

\* except Exception: pass, and except Exception: return
hint_entries == <<>>

\* except Exception: pass, around update_agent_status
status_entries == <<>>

\* except Exception as e: logger.error(f"[TOOL ERROR] ...")
execute_entries == <<"logger.error">>

\* except Exception as e: logger.error twice, log_activity('error', ...)
cycle_entries == <<"logger.error", "logger.error", "log_activity">>

Handled(function, error, entries) ==
    [tool |-> function, error |-> error,
     entries |-> IF error THEN entries ELSE <<>>]

\* a call of the tracker that leaves tr
TrackerHandled(tr, op, retry, remaining) ==
    /\ writes < MaxCaught
    /\ writes' = writes + 1
    /\ state' = tr.state
    /\ file' = tr.file
    /\ last' = TrackerCall(op, now, state, retry, remaining, None)
    /\ UNCHANGED <<now, advances, loopVars, threadVars>>

\* the tracker is constructed over a state file
LoadCaught ==
    /\ \E fl \in InitialFiles :
          /\ TrackerHandled(__init__(fl, now), "__init__", NoHint, NoHint)
          /\ exec' = Handled("_load_or_create", fl.kind = "corrupt",
                             load_entries)
    /\ UNCHANGED latest_activity

\* apply_comment_rate_limit with the hints of a 429 response
CommentHintCaught ==
    /\ \E h \in CommentHints :
          /\ TrackerHandled(apply_comment_rate_limit(Tracker, now, h[1], h[2]),
                            "apply_comment_rate_limit", h[1], h[2])
          /\ exec' = Handled("apply_comment_rate_limit",
                             h[1].kind = "bad" \/ h[2].kind = "bad",
                             hint_entries)
    /\ UNCHANGED latest_activity

\* apply_post_rate_limit with the hint of a 429 response
PostHintCaught ==
    /\ \E retry \in MinuteHints :
          /\ TrackerHandled(apply_post_rate_limit(Tracker, now, retry),
                            "apply_post_rate_limit", retry, NoHint)
          /\ exec' = Handled("apply_post_rate_limit", retry.kind = "bad",
                             hint_entries)
    /\ UNCHANGED latest_activity

\* execute runs a handler that returns or raises
ExecuteCaught ==
    /\ \E response \in {Created, Refused, Raises} :
       \E r \in {execute(Tracker, now, "create_comment", TRUE, response)} :
          /\ TrackerHandled(r.tr, "execute", NoHint, NoHint)
          /\ exec' = Handled("execute", r.result = caught("Exception"),
                             execute_entries)
    /\ UNCHANGED latest_activity

\* the end of a cycle: the status snapshot of the dashboard is updated
StatusCaught ==
    /\ \E raises \in BOOLEAN :
          /\ TrackerHandled(Tracker, "none", NoHint, NoHint)
          /\ exec' = Handled("update_agent_status", raises, status_entries)
    /\ UNCHANGED latest_activity

\* a cycle that runs through or raises
CycleCaught ==
    /\ \E raises \in BOOLEAN :
          /\ TrackerHandled(Tracker, "none", NoHint, NoHint)
          /\ exec' = Handled("autonomous_loop", raises, cycle_entries)
          /\ latest_activity' = IF raises THEN "error" ELSE latest_activity

NextCaught ==
    \/ LoadCaught
    \/ CommentHintCaught
    \/ PostHintCaught
    \/ ExecuteCaught
    \/ StatusCaught
    \/ CycleCaught

SpecCaught == InitLoop /\ [][NextCaught]_vars

\* C34: every error that an except clause of the tracker, the executor or
\* the loop catches is logged by that clause, at least once.
C34_CaughtErrorsLogged ==
    exec # NoExec /\ exec.error => exec.entries # <<>>

-----------------------------------------------------------------------------
(* SpecHistory: the loop with responses that carry many tool calls, as     *)
(* many as fill the history between two turns                              *)

\* the tool calls of the longest response
MaxBatch == 19

\* response.message.tool_calls: none, one tool call, or MaxBatch of them
BatchLists ==
    {<<>>, <<"create_comment">>, <<"done_for_now">>,
     [i \in 1..MaxBatch |-> "create_comment"]}

DecideBatch == DecideWith(BatchLists)

NextHistory ==
    \/ StartLoop
    \/ CycleStart
    \/ ContextRaises
    \/ DecideBatch
    \/ DecideRaises
    \/ ExitWhile
    \/ RunToolCall
    \/ ResultRaises
    \/ EndFor
    \/ CycleEnd
    \/ Except
    \/ Interrupt
    \/ InterruptExcept

SpecHistory == InitLoop /\ [][NextHistory]_vars

\* the messages decide_next_actions hands to the language model: the
\* history after the context was added as a user message
messages(history) == add_to_history(history, "user")

\* the tool messages at the end of the history
RECURSIVE tool_results(_)
tool_results(history) ==
    IF history # <<>> /\ history[Len(history)] = "tool"
    THEN 1 + tool_results(SubSeq(history, 1, Len(history) - 1))
    ELSE 0

\* the messages end with the assistant message of the turn before, k tool
\* messages and the user message
EndsWithTurn(sent, k) ==
    /\ Len(sent) >= k + 2
    /\ sent[Len(sent)] = "user"
    /\ \A i \in 1..k : sent[Len(sent) - i] = "tool"
    /\ sent[Len(sent) - k - 1] = "assistant"

\* every tool call that is executed and whose result is handled adds one
\* tool message, and nothing else is added during the for loop
ToolResultsKept ==
    /\ pc = "for" /\ pc' = "for" /\ tool_calls' # tool_calls =>
          conversation_history' = Append(conversation_history, "tool")
    /\ pc = "for" /\ pc' = "while" =>
          conversation_history' = conversation_history

\* C35 as stated: at every turn after the first of a cycle the messages end
\* with the assistant message of the turn before, one tool message for each
\* tool call executed in it, and the new user message; at the first turn
\* they are the system message and the user message.
C35_TurnHistory ==
    [][/\ ToolResultsKept
       /\ turns' = turns + 1 =>
            IF turns = 0
            THEN messages(conversation_history) = <<"system", "user">>
            ELSE EndsWithTurn(messages(conversation_history),
                              tool_results(conversation_history))]_vars

\* C35, amended: the same, for a turn that follows at most max_history - 2
\* executed tool calls; after more, add_to_history cuts the history to its
\* last max_history messages, which are tool messages and the user message.
C35_TurnHistoryWithinBound ==
    [][/\ ToolResultsKept
       /\ turns' = turns + 1 =>
            LET k == tool_results(conversation_history)
                sent == messages(conversation_history)
            IN  IF turns = 0
                THEN sent = <<"system", "user">>
                ELSE /\ k <= max_history - 2 => EndsWithTurn(sent, k)
                     /\ k > max_history - 2 =>
                           /\ Len(sent) = max_history
                           /\ \A i \in 1..(max_history - 1) : sent[i] = "tool"]_vars

\* the second turn of a cycle has been taken after a first one that ran a
\* tool call: system, user, assistant, tool, user, assistant
C35_Witness ==
    /\ turns = 2
    /\ pc \in {"for", "cycle_end"}
    /\ conversation_history =
          <<"system", "user", "assistant", "tool", "user", "assistant">>

-----------------------------------------------------------------------------
(* SpecCount: the loop with its counters total_actions and                 *)
(* successful_actions, for as many tool calls as MaxActions                *)

\* the tool calls counted in one behaviour
MaxActions == 4

\* the tools the language model asks for: a registered tool, a tool that is
\* not registered, and the tool that ends the cycle
CountTools == {"create_comment", "no_such_tool", "done_for_now"}

CountLists == UNION {[1..n -> CountTools] : n \in 1..MaxToolCalls}

\* a counter that counts the successful tool calls only
count_successes(total, successful, result) ==
    [total |-> total + (IF result.success THEN 1 ELSE 0),
     successful |-> successful + (IF result.success THEN 1 ELSE 0)]

\* self.total_actions += 1; if result.get('success', False):
\* self.successful_actions += 1
count_result(total, successful, result) ==
    [total |-> total + 1,
     successful |-> successful + (IF result.success THEN 1 ELSE 0)]

\* a turn, while tool calls are left to count
DecideCounted ==
    DecideWith(IF total_actions + MaxToolCalls <= MaxActions
               THEN CountLists \cup {<<>>}
               ELSE {<<>>, <<"done_for_now">>})

\* the next tool call of the response, with the counters
CountToolCall ==
    /\ pc = "for"
    /\ tool_calls # <<>>
    /\ LET tool_name == Head(tool_calls)
       IN  IF tool_name = "done_for_now"
           THEN /\ done' = TRUE
                /\ pc' = "cycle_end"
                /\ tool_calls' = <<>>
                /\ UNCHANGED <<iteration, conversation_history, turns>>
                /\ UNCHANGED <<trackerVars, exec, threadVars, latest_activity,
                               agentVars>>
           ELSE /\ \E response \in LoopResponses(tool_name) :
                      Executed(tool_name, TRUE, response)
                /\ latest_activity' = logged_activity(tool_name, exec'.result)
                /\ \E c \in {count_result(total_actions, successful_actions,
                                          exec'.result)} :
                      /\ total_actions' = c.total
                      /\ successful_actions' = c.successful
                /\ conversation_history' = add_tool_result(conversation_history)
                /\ tool_calls' = Tail(tool_calls)
                /\ UNCHANGED <<pc, iteration, done, turns, running>>

NextCount ==
    \/ StartLoop
    \/ CycleStart
    \/ DecideCounted
    \/ CountToolCall
    \/ EndFor
    \/ CycleEnd
    \/ Interrupt

SpecCount == InitLoop /\ [][NextCount]_vars

\* a tool call is handed to the executor and its result handled
Handed ==
    /\ pc = "for" /\ pc' = "for"
    /\ tool_calls # <<>> /\ Head(tool_calls) # "done_for_now"

\* C36: 0 <= successful_actions <= total_actions at all times and neither
\* counter decreases; total_actions grows by one with every tool call handed
\* to the executor, an unknown tool and a rate-limited call included, and by
\* nothing else (done_for_now is not counted); successful_actions grows by
\* one exactly when the outcome of that tool call has success true.
C36_Counters ==
    [][/\ 0 <= successful_actions' /\ successful_actions' <= total_actions'
       /\ total_actions' >= total_actions
       /\ successful_actions' >= successful_actions
       /\ Handed =>
            /\ exec'.tool = Head(tool_calls)
            /\ total_actions' = total_actions + 1
            /\ successful_actions' =
                  successful_actions + (IF exec'.result.success THEN 1 ELSE 0)
       /\ ~Handed => UNCHANGED <<total_actions, successful_actions>>]_vars

\* four tool calls were counted, one of them successful; the latest was
\* refused by the rate limiter
C36_Witness ==
    /\ total_actions = MaxActions
    /\ successful_actions = 1
    /\ exec.tool = "create_comment"
    /\ exec.result.rate_limit

-----------------------------------------------------------------------------
(* SpecPace: sequences of comments and posts made through execute, the     *)
(* clock standing still or moving on between them                          *)

PaceTools == {"create_comment", "create_post", "create_link_post"}

ExecutePaced ==
    /\ \E tool_name \in PaceTools :
       \E response \in LoopResponses(tool_name) :
          Executed(tool_name, TRUE, response)
    /\ UNCHANGED <<loopVars, latest_activity>>

\* the clock moves on by a fraction of a second, by the comment cooldown,
\* by the post cooldown
PaceSteps ==
    {1, comment_cooldown_seconds * SecTicks, post_cooldown_minutes * MinTicks}

ElapsePaced ==
    /\ advances < MaxAdvances
    /\ \E d \in PaceSteps : now' = now + d
    /\ advances' = advances + 1
    /\ last' = NoCall(now')
    /\ exec' = NoExec
    /\ UNCHANGED <<state, file, writes, loopVars, threadVars, latest_activity>>

NextPace ==
    \/ ElapsePaced
    \/ ExecutePaced

SpecPace == InitExec /\ [][NextPace]_vars

\* the latest execute made a comment (a post) that the platform accepted
\* and the tracker recorded, after an earlier one
CommentAfterComment ==
    /\ exec # NoExec /\ exec.tool = "create_comment"
    /\ exec.result.success
    /\ exec.pre.state.last_comment_time # 0

PostAfterPost ==
    /\ exec # NoExec /\ exec.tool \in {"create_post", "create_link_post"}
    /\ exec.result.success
    /\ exec.pre.state.last_post_time # 0

\* C37: of the comments made through execute, one after another on a clock
\* that does not go back, any two successful ones are recorded at least
\* comment_cooldown_seconds apart; any two successful posts, text or link,
\* at least post_cooldown_minutes apart.
C37_Paced ==
    /\ CommentAfterComment =>
          /\ state.last_comment_time = exec.at
          /\ state.last_comment_time - exec.pre.state.last_comment_time
                >= comment_cooldown_seconds * SecTicks
    /\ PostAfterPost =>
          /\ state.last_post_time = exec.at
          /\ state.last_post_time - exec.pre.state.last_post_time
                >= post_cooldown_minutes * MinTicks

\* a link post was made and recorded after an earlier post of this
\* behaviour, post_cooldown_minutes after it
C37_Witness ==
    /\ PostAfterPost
    /\ exec.tool = "create_link_post"
    /\ writes = 2
    /\ state.last_post_time - exec.pre.state.last_post_time
          = post_cooldown_minutes * MinTicks

-----------------------------------------------------------------------------
(* SpecOrder: log_activity called by the loop thread and by a request      *)
(* handler of the dashboard at the same time.  A call is two steps, one    *)
(* under activities_lock and one under subscribers_lock; agent and dash    *)
(* hold the event of a call between the two.                               *)

\* the events logged in one behaviour
MaxOrdered == 3

\* with self.activities_lock: self.activities.append(activity)
appended(acts, activity_type) ==
    LET activity == Activity(acts, activity_type)
    IN  [activities |-> deque_append(acts, activity), activity |-> activity]

\* with self.subscribers_lock: for sub_queue in self.subscribers:
\* sub_queue.put_nowait(activity)
published(subs, activity) ==
    [i \in DOMAIN subs |->
        [subs[i] EXCEPT !.queue = put_nowait(subs[i].queue, activity)]]

OrderOnly ==
    UNCHANGED <<trackerVars, exec, loopVars, suggestions, contexts, serial,
                latest_activity, gets, request>>

\* the loop thread appends its event to the ring buffer
LoopAppends ==
    /\ agent.pc = "idle"
    /\ Logged(activities) < MaxOrdered
    /\ \E r \in {appended(activities, "thought")} :
          /\ activities' = r.activities
          /\ agent' = [pc |-> "appended", activity |-> r.activity]
    /\ UNCHANGED <<subscribers, dash>>
    /\ OrderOnly

\* the loop thread hands its event to the subscribers
LoopPublishes ==
    /\ agent.pc = "appended"
    /\ subscribers' = published(subscribers, agent.activity)
    /\ agent' = [pc |-> "idle"]
    /\ UNCHANGED <<activities, dash>>
    /\ OrderOnly

\* POST /api/suggestions: the handler appends its event to the ring buffer
DashAppends ==
    /\ dash.pc = "idle"
    /\ Logged(activities) < MaxOrdered
    /\ \E r \in {appended(activities, "suggestion_received")} :
          /\ activities' = r.activities
          /\ dash' = [pc |-> "appended", added |-> 0, activity |-> r.activity]
    /\ UNCHANGED <<subscribers, agent>>
    /\ OrderOnly

\* the handler hands its event to the subscribers
DashPublishes ==
    /\ dash.pc = "appended"
    /\ subscribers' = published(subscribers, dash.activity)
    /\ dash' = [pc |-> "idle", added |-> 0]
    /\ UNCHANGED <<activities, agent>>
    /\ OrderOnly

NextOrder ==
    \/ LoopAppends
    \/ LoopPublishes
    \/ DashAppends
    \/ DashPublishes
    \/ \E client \in Clients : Subscribe(client)
    \/ \E client \in Clients : Unsubscribe(client)

SpecOrder == InitLoop /\ [][NextOrder]_vars

\* x comes before y in the sequence
Before(seq, x, y) ==
    \E j, k \in DOMAIN seq : j < k /\ seq[j] = x /\ seq[k] = y

\* two subscribers never hold the same two events in opposite orders
SubscribersAgree ==
    \A s1, s2 \in DOMAIN subscribers :
        \A j, k \in DOMAIN subscribers[s1].queue :
            j < k => ~Before(subscribers[s2].queue,
                             subscribers[s1].queue[k], subscribers[s1].queue[j])

\* C38: a subscriber that received two events received them in the order
\* in which they were appended to the ring buffer, the order of get_recent;
\* and all subscribers hold them in the same order.
C38_OrderOfAppend ==
    /\ \A s \in DOMAIN subscribers :
          \A j, k \in DOMAIN subscribers[s].queue :
              j < k => ~Before(activities, subscribers[s].queue[k],
                               subscribers[s].queue[j])
    /\ SubscribersAgree

-----------------------------------------------------------------------------
(* The tracker's state across its operations, in Spec: last holds the      *)
(* latest operation, the state it found and what it returned.              *)

\* C22: comments_today is at most the daily limit of 50 in every state the
\* tracker is in between its operations, whatever was loaded from the file
\* and whichever of record_comment, apply_comment_rate_limit and the daily
\* reset ran.
C22_WithinLimit == state.comments_today <= comments_per_day

Timestamps ==
    {"last_comment_time", "last_post_time", "comment_blocked_until",
     "post_blocked_until"}

\* the operation that clears the block held under key
Clears(op, key) ==
    \/ op = "record_comment" /\ key = "comment_blocked_until"
    \/ op = "record_post" /\ key = "post_blocked_until"

\* the statement of C23 as it was made: no operation lowers the stored
\* value of a timestamp
C23_NeverLowered ==
    last.op # "none" =>
        \A key \in Timestamps : Get0(state, key) >= Get0(last.pre, key)

\* C23: with a clock that does not go back, no operation lowers
\* last_comment_time or last_post_time, and no operation lowers a block
\* end, except that record_comment sets comment_blocked_until to 0 and
\* record_post sets post_blocked_until to 0.
C23_TimestampsKept ==
    last.op # "none" =>
        \A key \in Timestamps :
            \/ Get0(state, key) >= Get0(last.pre, key)
            \/ Clears(last.op, key) /\ Get0(state, key) = 0

\* record_comment found a comment block set and left it at 0
C23_Witness ==
    /\ last.op = "record_comment"
    /\ Get0(last.pre, "comment_blocked_until") > 0
    /\ state.comment_blocked_until = 0
    /\ state.last_comment_time = now

\* C24: can_comment decides in a fixed order. A server block that ends in
\* the future denies with reason cooldown and the wait that remains,
\* whatever the daily count; otherwise a count of 50 or more denies with
\* reason daily_limit, whatever the time since the last comment; otherwise
\* less than 20 seconds since the last comment denies with reason cooldown;
\* otherwise the comment is allowed with 50 - comments_today remaining.
C24_Precedence ==
    last.op = "can_comment" =>
        LET blocked_until == Get0(state, "comment_blocked_until")
            time_since_last == last.at - state.last_comment_time
            res == last.res
        IN  IF blocked_until > last.at
            THEN /\ ~res.allowed /\ res.reason = "cooldown"
                 /\ res.wait_seconds # None
                 /\ (res.wait_seconds[1] - 1) * SecTicks <= blocked_until - last.at
                 /\ blocked_until - last.at < res.wait_seconds[1] * SecTicks
            ELSE IF state.comments_today >= comments_per_day
            THEN ~res.allowed /\ res.reason = "daily_limit"
            ELSE IF time_since_last < comment_cooldown_seconds * SecTicks
            THEN ~res.allowed /\ res.reason = "cooldown"
            ELSE /\ res.allowed
                 /\ res.comments_remaining = comments_per_day - state.comments_today

\* can_comment met a server block in the future with the daily count at 50
\* or more, and answered cooldown
C24_Witness ==
    /\ last.op = "can_comment"
    /\ Get0(state, "comment_blocked_until") > now
    /\ state.comments_today >= comments_per_day
    /\ last.res.reason = "cooldown"

\* the retry_after_minutes of the platform's post 429
FifteenMinutes == Num(15 * TicksPerSec)

\* C25: after record_post at t, can_post denies at every time before
\* t + 30 minutes and allows from t + 30 minutes on when no server block is
\* active, and nothing but last_post_time and the block decides, so no
\* number of recorded posts denies by itself; apply_post_rate_limit with m
\* minutes leaves the block at max(the block there was, now + m minutes);
\* can_post at the time of an apply_post_rate_limit(15) that set the block
\* denies with wait_minutes within 1 of 15.
C25_PostCooldown ==
    /\ last.op = "can_post" /\ Get0(state, "post_blocked_until") <= last.at =>
            (last.res.allowed <=>
                last.at - state.last_post_time >= post_cooldown_minutes * MinTicks)
    /\ last.op = "can_post" /\ Get0(state, "post_blocked_until") > last.at =>
            ~last.res.allowed
    /\ last.op = "apply_post_rate_limit" /\ last.retry.kind = "num" =>
            state.post_blocked_until =
                Max(Get0(last.pre, "post_blocked_until"),
                    last.at + HintInt(last.retry) * MinTicks)
    /\ /\ last.op = "can_post"
       /\ Get0(state, "post_blocked_until") = last.at + HintInt(FifteenMinutes) * MinTicks
       => /\ ~last.res.allowed
          /\ last.res.wait_minutes # None
          /\ last.res.wait_minutes[1] \in 14..16

\* a post was recorded, exactly 30 minutes went by, and can_post allows
C25_Witness ==
    /\ last.op = "can_post"
    /\ state.last_post_time >= StartTime
    /\ now - state.last_post_time = post_cooldown_minutes * MinTicks
    /\ Get0(state, "post_blocked_until") = 0
    /\ last.res.allowed

\* limit - r brought into 0 .. limit
Clamped(r) == Max(0, Min(comments_per_day, comments_per_day - r))

\* the statement of C26 as it was made: without daily_remaining the call
\* leaves comments_today as it found it
C26_AbsentUnchanged ==
    last.op = "apply_comment_rate_limit" =>
        IF last.remaining.kind = "num"
        THEN state.comments_today = Clamped(HintInt(last.remaining))
        ELSE state.comments_today = last.pre.comments_today

\* C26: apply_comment_rate_limit with daily_remaining = r leaves
\* comments_today at limit - r clamped to 0 .. 50, for negative r and r
\* above 50 as well; without a usable daily_remaining comments_today is what
\* the daily reset at the start of the call made of it: 0 on a new UTC day,
\* the count found otherwise.
C26_Clamped ==
    last.op = "apply_comment_rate_limit" =>
        IF last.remaining.kind = "num"
        THEN state.comments_today = Clamped(HintInt(last.remaining))
        ELSE state.comments_today =
                IF Stale THEN 0 ELSE last.pre.comments_today

\* a negative daily_remaining left the count at the limit
C26_Witness ==
    /\ last.op = "apply_comment_rate_limit"
    /\ last.remaining.kind = "num"
    /\ HintInt(last.remaining) < 0
    /\ last.pre.comments_today # comments_per_day
    /\ state.comments_today = comments_per_day

\* the call left the value under key as it found it
Kept(key) == Get0(state, key) = Get0(last.pre, key)

\* C27: record_comment leaves comment_blocked_until at 0 and does not touch
\* last_post_time or post_blocked_until; record_post leaves
\* post_blocked_until at 0 and does not touch comments_today,
\* last_comment_time or comment_blocked_until; apply_comment_rate_limit
\* does not touch the post block or either last_*_time, and
\* apply_post_rate_limit does not touch the comment block or either
\* last_*_time.
C27_Frame ==
    /\ last.op = "record_comment" =>
            /\ state.comment_blocked_until = 0
            /\ Kept("last_post_time") /\ Kept("post_blocked_until")
    /\ last.op = "record_post" =>
            /\ state.post_blocked_until = 0
            /\ Kept("comments_today") /\ Kept("last_comment_time")
            /\ Kept("comment_blocked_until")
    /\ last.op = "apply_comment_rate_limit" =>
            /\ Kept("post_blocked_until")
            /\ Kept("last_post_time") /\ Kept("last_comment_time")
    /\ last.op = "apply_post_rate_limit" =>
            /\ Kept("comment_blocked_until")
            /\ Kept("last_post_time") /\ Kept("last_comment_time")

\* record_post on a new UTC day, with a post block set: the block is
\* cleared and the count of the day before is still there
C27_Witness ==
    /\ last.op = "record_post"
    /\ last.pre.reset_date # today(last.at)
    /\ Get0(last.pre, "post_blocked_until") > 0
    /\ state.post_blocked_until = 0
    /\ state.comments_today > 0

====
